---- MODULE Spec2Model ----
(***************************************************************************)
(* Anchor positioning plugin of data-satelites (src/src/plugin-loader.ts,  *)
(* the translate-based draft at lines 830-1268, and the legacy positioner  *)
(* of src/dist/anchor.js).                                                 *)
(*                                                                         *)
(* Lengths read from the DOM (rectangles, viewport, scroll, font sizes)    *)
(* are whole CSS pixels.  Computed coordinates are integers counting       *)
(* 1/U of a pixel, so that the halving of the centred placements and the   *)
(* hundredths of vw/vh are exact.  An offset value is the decimal number   *)
(* n/d that parseFloat reads.                                              *)
(***************************************************************************)
EXTENDS Integers, Sequences, FiniteSets, TLC

VARIABLES
    gin,        \* geometry engine: the inputs of one positioning pass
    gout,       \* geometry engine: what the last applied function returned
    cfg,        \* onLoad: the resolved spec and what CSS.supports reports
    env,        \* the page: target position, viewport size, scroll offset
    el,         \* the floating element: inline style, data-actual-placement
    listeners,  \* the window's registered event listeners
    timers,     \* pending setTimeout(checkForFlipping, 50) callbacks
    hasFlipped, \* onLoad's hasFlipped
    phase,      \* "new", "attached" (onLoad returned), "detached" (cleanup ran)
    nFallback,  \* calls of applyFallbackPositioning so far (its closures)
    last,       \* the operation that ran last, and whether it ran a pass
    first,      \* the inputs and the result of the element's first pass
    pin,        \* resolver: the data-anchor value and the two attributes
    pout,       \* resolver: what parseAnchorConfig returned, then offsetPx
    dom,        \* target lookup: the document, Date.now() and the last onLoad
    loader,     \* DatastarPluginLoader: its maps and the loads in flight
    persist,    \* persist plugin: storage, signal, cached data, debounce timer
    legacy      \* legacy AnchorPlugin: its AutoUpdate objects and the window

gvars == <<gin, gout>>
lvars == <<cfg, env, el, listeners, timers, hasFlipped, phase, nFallback, last, first>>
pvars == <<pin, pout>>
xvars == <<dom, loader, persist, legacy>>
vars == <<gvars, lvars, pvars, xvars>>

----------------------------------------------------------------------------
(* Units *)

U == 2 * 100

Rat(n, d) == [n |-> n, d |-> d]

RECURSIVE Gcd(_, _)
Gcd(a, b) == IF b = 0 THEN a ELSE Gcd(b, a % b)

\* a fraction in lowest terms
Norm(q) == LET g == Gcd(q.n, q.d) IN Rat(q.n \div g, q.d \div g)

\* equality of numbers
RatEq(a, b) == Norm(a) = Norm(b)

\* a decimal number as a count of 1/U pixel (exact when d divides n * U)
ToUnits(q) == (q.n * U) \div q.d

----------------------------------------------------------------------------
(* The twelve placements *)

Placements ==
    {"top", "top-start", "top-end", "bottom", "bottom-start", "bottom-end",
     "left", "left-start", "left-end", "right", "right-start", "right-end"}

Units == {"px", "rem", "em", "%", "vw", "vh"}

Rect(l, tp, w, h) == [left |-> l, top |-> tp, width |-> w, height |-> h]

\* what one pass reads: targetRect, the floating element's size, the
\* viewport, the scroll offset and the font sizes of the root and of el
Env(t, fw, fh, W, H, sx, sy) ==
    [t |-> t, fw |-> fw, fh |-> fh, W |-> W, H |-> H, sx |-> sx, sy |-> sy,
     rootFont |-> 16, elFont |-> 12]

\* DOMRect: right and bottom are derived from left/top and the size
RectRight(r) == r.left + r.width
RectBottom(r) == r.top + r.height

----------------------------------------------------------------------------
(* updatePosition: offset to pixels *)

OffsetPxVwAsVh(offsetValue, offsetUnit, e) ==
    CASE offsetUnit = "rem" -> Rat(offsetValue.n * e.rootFont, offsetValue.d)
      [] offsetUnit = "em"  -> Rat(offsetValue.n * e.elFont, offsetValue.d)
      [] offsetUnit = "vw"  -> Rat(offsetValue.n * e.H, offsetValue.d * 100)
      [] offsetUnit = "vh"  -> Rat(offsetValue.n * e.H, offsetValue.d * 100)
      [] OTHER              -> offsetValue

OffsetPx(offsetValue, offsetUnit, e) ==
    CASE offsetUnit = "rem" -> Rat(offsetValue.n * e.rootFont, offsetValue.d)
      [] offsetUnit = "em"  -> Rat(offsetValue.n * e.elFont, offsetValue.d)
      [] offsetUnit = "vw"  -> Rat(offsetValue.n * e.W, offsetValue.d * 100)
      [] offsetUnit = "vh"  -> Rat(offsetValue.n * e.H, offsetValue.d * 100)
      [] OTHER              -> offsetValue

----------------------------------------------------------------------------
(* updatePosition: calculatePosition, isWithinViewport, fallbacks *)

padding == 10

Pos(x, y, p) == [x |-> x, y |-> y, placement |-> p]

\* (targetRect.width - elRect.width) / 2 and its vertical twin
HalfDiff(a, b) == ((a - b) * U) \div 2

calculatePositionEndAsStart(testPlacement, t, elr, offsetPx) ==
    LET above  == t.top * U - elr.height * U - offsetPx
        below  == RectBottom(t) * U + offsetPx
        before == t.left * U - elr.width * U - offsetPx
        after  == RectRight(t) * U + offsetPx
        midX   == t.left * U + HalfDiff(t.width, elr.width)
        midY   == t.top * U + HalfDiff(t.height, elr.height)
        endX   == t.left * U
        endY   == t.top * U
    IN  CASE testPlacement = "top"          -> Pos(midX, above, testPlacement)
          [] testPlacement = "top-start"    -> Pos(t.left * U, above, testPlacement)
          [] testPlacement = "top-end"      -> Pos(endX, above, testPlacement)
          [] testPlacement = "bottom"       -> Pos(midX, below, testPlacement)
          [] testPlacement = "bottom-start" -> Pos(t.left * U, below, testPlacement)
          [] testPlacement = "bottom-end"   -> Pos(endX, below, testPlacement)
          [] testPlacement = "left"         -> Pos(before, midY, testPlacement)
          [] testPlacement = "left-start"   -> Pos(before, t.top * U, testPlacement)
          [] testPlacement = "left-end"     -> Pos(before, endY, testPlacement)
          [] testPlacement = "right"        -> Pos(after, midY, testPlacement)
          [] testPlacement = "right-start"  -> Pos(after, t.top * U, testPlacement)
          [] testPlacement = "right-end"    -> Pos(after, endY, testPlacement)
          [] OTHER                          -> Pos(midX, below, testPlacement)

calculatePosition(testPlacement, t, elr, offsetPx) ==
    LET above  == t.top * U - elr.height * U - offsetPx
        below  == RectBottom(t) * U + offsetPx
        before == t.left * U - elr.width * U - offsetPx
        after  == RectRight(t) * U + offsetPx
        midX   == t.left * U + HalfDiff(t.width, elr.width)
        midY   == t.top * U + HalfDiff(t.height, elr.height)
        endX   == RectRight(t) * U - elr.width * U
        endY   == RectBottom(t) * U - elr.height * U
    IN  CASE testPlacement = "top"          -> Pos(midX, above, testPlacement)
          [] testPlacement = "top-start"    -> Pos(t.left * U, above, testPlacement)
          [] testPlacement = "top-end"      -> Pos(endX, above, testPlacement)
          [] testPlacement = "bottom"       -> Pos(midX, below, testPlacement)
          [] testPlacement = "bottom-start" -> Pos(t.left * U, below, testPlacement)
          [] testPlacement = "bottom-end"   -> Pos(endX, below, testPlacement)
          [] testPlacement = "left"         -> Pos(before, midY, testPlacement)
          [] testPlacement = "left-start"   -> Pos(before, t.top * U, testPlacement)
          [] testPlacement = "left-end"     -> Pos(before, endY, testPlacement)
          [] testPlacement = "right"        -> Pos(after, midY, testPlacement)
          [] testPlacement = "right-start"  -> Pos(after, t.top * U, testPlacement)
          [] testPlacement = "right-end"    -> Pos(after, endY, testPlacement)
          [] OTHER                          -> Pos(midX, below, testPlacement)

isWithinViewport(pos, elr, viewportWidth, viewportHeight) ==
    /\ pos.x >= padding * U
    /\ pos.x + elr.width * U <= (viewportWidth - padding) * U
    /\ pos.y >= padding * U
    /\ pos.y + elr.height * U <= (viewportHeight - padding) * U

fallbacks(placement) ==
    CASE placement = "top"          -> <<"bottom", "left", "right">>
      [] placement = "top-start"    -> <<"bottom-start", "top-end", "bottom-end">>
      [] placement = "top-end"      -> <<"bottom-end", "top-start", "bottom-start">>
      [] placement = "bottom"       -> <<"top", "left", "right">>
      [] placement = "bottom-start" -> <<"top-start", "bottom-end", "top-end">>
      [] placement = "bottom-end"   -> <<"top-end", "bottom-start", "top-start">>
      [] placement = "left"         -> <<"right", "top", "bottom">>
      [] placement = "left-start"   -> <<"right-start", "left-end", "right-end">>
      [] placement = "left-end"     -> <<"right-end", "left-start", "right-start">>
      [] placement = "right"        -> <<"left", "top", "bottom">>
      [] placement = "right-start"  -> <<"left-start", "right-end", "left-end">>
      [] placement = "right-end"    -> <<"left-end", "right-start", "left-start">>
      [] OTHER                      -> <<"bottom", "top", "left", "right">>

MinOf(S) == CHOOSE m \in S : \A k \in S : m <= k
MaxOf(S) == CHOOSE m \in S : \A k \in S : m >= k

\* the for loop over fallbackPlacements, left at the primary candidate that fits
finalPositionLastFit(placement, t, elr, e, offsetPx) ==
    LET primary == calculatePosition(placement, t, elr, offsetPx)
        fb    == fallbacks(placement)
        fits  == {i \in 1..Len(fb) :
                    isWithinViewport(calculatePosition(fb[i], t, elr, offsetPx), elr, e.W, e.H)}
    IN  IF isWithinViewport(primary, elr, e.W, e.H) \/ fits = {}
        THEN primary
        ELSE calculatePosition(fb[MaxOf(fits)], t, elr, offsetPx)

finalPosition(placement, t, elr, e, offsetPx) ==
    LET primary == calculatePosition(placement, t, elr, offsetPx)
        fb    == fallbacks(placement)
        fits  == {i \in 1..Len(fb) :
                    isWithinViewport(calculatePosition(fb[i], t, elr, offsetPx), elr, e.W, e.H)}
    IN  IF isWithinViewport(primary, elr, e.W, e.H) \/ fits = {}
        THEN primary
        ELSE calculatePosition(fb[MinOf(fits)], t, elr, offsetPx)

----------------------------------------------------------------------------
(* getAnchorCSS (translate-based draft): the declarations it returns *)

\* the value of an inset property (top, bottom, left, right) of el.style:
\* not set, anchor(<side>), or the `${n}px` the fallback writes
Unset == [k |-> "unset", side |-> "", v |-> 0]
Anchor(side) == [k |-> "anchor", side |-> side, v |-> 0]
Px(v) == [k |-> "px", side |-> "", v |-> v]

\* one component of translate: a percentage of the element's own box, zero,
\* or sign times the formatted offset `${offsetValue}${offsetUnit}`
Pct(v) == [k |-> "pct", v |-> v]
Zero == [k |-> "zero", v |-> 0]
Offs(sign) == [k |-> "len", v |-> sign]

Styles(anchorName, top, bottom, left, right, tx, ty, offsetValue, offsetUnit) ==
    [position |-> "absolute", positionAnchor |-> anchorName,
     top |-> top, bottom |-> bottom, left |-> left, right |-> right,
     translate |-> [x |-> tx, y |-> ty, value |-> offsetValue, unit |-> offsetUnit]]

getAnchorCSS(anchorName, placement, offsetValue, offsetUnit) ==
    LET S(top, bottom, left, right, tx, ty) ==
            Styles(anchorName, top, bottom, left, right, tx, ty, offsetValue, offsetUnit)
    IN  CASE placement = "top" ->
               S(Unset, Anchor("top"), Anchor("center"), Unset, Pct(-50), Offs(-1))
          [] placement = "top-start" ->
               S(Unset, Anchor("top"), Anchor("left"), Unset, Zero, Offs(-1))
          [] placement = "top-end" ->
               S(Unset, Anchor("top"), Unset, Anchor("right"), Zero, Offs(-1))
          [] placement = "bottom" ->
               S(Anchor("bottom"), Unset, Anchor("center"), Unset, Pct(-50), Offs(1))
          [] placement = "bottom-start" ->
               S(Anchor("bottom"), Unset, Anchor("left"), Unset, Zero, Offs(1))
          [] placement = "bottom-end" ->
               S(Anchor("bottom"), Unset, Unset, Anchor("right"), Zero, Offs(1))
          [] placement = "left" ->
               S(Anchor("center"), Unset, Unset, Anchor("left"), Offs(-1), Pct(-50))
          [] placement = "left-start" ->
               S(Anchor("top"), Unset, Unset, Anchor("left"), Offs(-1), Zero)
          [] placement = "left-end" ->
               S(Unset, Anchor("bottom"), Unset, Anchor("left"), Offs(-1), Zero)
          [] placement = "right" ->
               S(Anchor("center"), Unset, Anchor("right"), Unset, Offs(1), Pct(-50))
          [] placement = "right-start" ->
               S(Anchor("top"), Unset, Anchor("right"), Unset, Offs(1), Zero)
          [] placement = "right-end" ->
               S(Unset, Anchor("bottom"), Anchor("right"), Unset, Offs(1), Zero)
          [] OTHER ->
               S(Anchor("bottom"), Unset, Anchor("center"), Unset, Pct(-50), Offs(1))

\* the compiled draft (dist/src/anchor.js) adds position-try-options: the
\* placements to try instead, each behind the prefix "flip-"
getPositionTryOptions(placement) ==
    LET fallbackPlacements ==
            CASE placement = "top"          -> <<"bottom", "left", "right">>
              [] placement = "top-start"    -> <<"bottom-start", "top-end", "bottom-end">>
              [] placement = "top-end"      -> <<"bottom-end", "top-start", "bottom-start">>
              [] placement = "bottom"       -> <<"top", "left", "right">>
              [] placement = "bottom-start" -> <<"top-start", "bottom-end", "top-end">>
              [] placement = "bottom-end"   -> <<"top-end", "bottom-start", "top-start">>
              [] placement = "left"         -> <<"right", "top", "bottom">>
              [] placement = "left-start"   -> <<"right-start", "left-end", "right-end">>
              [] placement = "left-end"     -> <<"right-end", "left-start", "right-start">>
              [] placement = "right"        -> <<"left", "top", "bottom">>
              [] placement = "right-start"  -> <<"left-start", "right-end", "left-end">>
              [] placement = "right-end"    -> <<"left-end", "right-start", "left-start">>
              [] OTHER                      -> <<"bottom", "top", "left", "right">>
    IN  [i \in 1..Len(fallbackPlacements) |-> <<"flip-", fallbackPlacements[i]>>]

\* getAnchorCSS of the compiled draft: the translate-based declarations and
\* the list of placements to try
getAnchorCSSDist(anchorName, placement, offsetValue, offsetUnit) ==
    LET S(top, bottom, left, right, tx, ty) ==
            [position |-> "absolute", positionAnchor |-> anchorName,
             positionTryOptions |-> getPositionTryOptions(placement),
             top |-> top, bottom |-> bottom, left |-> left, right |-> right,
             translate |-> [x |-> tx, y |-> ty, value |-> offsetValue,
                            unit |-> offsetUnit]]
    IN  CASE placement = "top" ->
               S(Unset, Anchor("top"), Anchor("center"), Unset, Pct(-50), Offs(-1))
          [] placement = "top-start" ->
               S(Unset, Anchor("top"), Anchor("left"), Unset, Zero, Offs(-1))
          [] placement = "top-end" ->
               S(Unset, Anchor("top"), Unset, Anchor("right"), Zero, Offs(-1))
          [] placement = "bottom" ->
               S(Anchor("bottom"), Unset, Anchor("center"), Unset, Pct(-50), Offs(1))
          [] placement = "bottom-start" ->
               S(Anchor("bottom"), Unset, Anchor("left"), Unset, Zero, Offs(1))
          [] placement = "bottom-end" ->
               S(Anchor("bottom"), Unset, Unset, Anchor("right"), Zero, Offs(1))
          [] placement = "left" ->
               S(Anchor("center"), Unset, Unset, Anchor("left"), Offs(-1), Pct(-50))
          [] placement = "left-start" ->
               S(Anchor("top"), Unset, Unset, Anchor("left"), Offs(-1), Zero)
          [] placement = "left-end" ->
               S(Unset, Anchor("bottom"), Unset, Anchor("left"), Offs(-1), Zero)
          [] placement = "right" ->
               S(Anchor("center"), Unset, Anchor("right"), Unset, Offs(1), Pct(-50))
          [] placement = "right-start" ->
               S(Anchor("top"), Unset, Anchor("right"), Unset, Offs(1), Zero)
          [] placement = "right-end" ->
               S(Unset, Anchor("bottom"), Anchor("right"), Unset, Offs(1), Zero)
          [] OTHER ->
               S(Anchor("bottom"), Unset, Anchor("center"), Unset, Pct(-50), Offs(1))

----------------------------------------------------------------------------
(* What the host CSS engine makes of those declarations: the top-left      *)
(* corner of the floating element's box, in viewport coordinates.          *)

\* a CSS <length-percentage> inside translate; a percentage refers to the
\* element's own box along that axis
cssLength(value, unit, own, e) ==
    CASE unit = "rem" -> Rat(value.n * e.rootFont, value.d)
      [] unit = "em"  -> Rat(value.n * e.elFont, value.d)
      [] unit = "vw"  -> Rat(value.n * e.W, value.d * 100)
      [] unit = "vh"  -> Rat(value.n * e.H, value.d * 100)
      [] unit = "%"   -> Rat(value.n * own, value.d * 100)
      [] OTHER        -> value

\* anchor(<side>) on a horizontal (left/right) or vertical (top/bottom) inset
anchorX(side, t) ==
    CASE side = "left"   -> t.left * U
      [] side = "right"  -> RectRight(t) * U
      [] side = "center" -> t.left * U + (t.width * U) \div 2

anchorY(side, t) ==
    CASE side = "top"    -> t.top * U
      [] side = "bottom" -> RectBottom(t) * U
      [] side = "center" -> t.top * U + (t.height * U) \div 2

translateBy(c, tr, own, e) ==
    CASE c.k = "pct"  -> (c.v * own * U) \div 100
      [] c.k = "zero" -> 0
      [] c.k = "len"  -> c.v * ToUnits(cssLength(tr.value, tr.unit, own, e))

cssLayout(styles, t, elr, e) ==
    LET x0 == IF styles.left.k = "anchor"
              THEN anchorX(styles.left.side, t)
              ELSE anchorX(styles.right.side, t) - elr.width * U
        y0 == IF styles.top.k = "anchor"
              THEN anchorY(styles.top.side, t)
              ELSE anchorY(styles.bottom.side, t) - elr.height * U
    IN  [x |-> x0 + translateBy(styles.translate.x, styles.translate, elr.width, e),
         y |-> y0 + translateBy(styles.translate.y, styles.translate, elr.height, e)]

----------------------------------------------------------------------------
(* FloatingUICore.computePosition (legacy positioner): the base position   *)

computePositionBase(placement, refRect, floatingRect, offset) ==
    LET o == offset * U
        P(x, y, fp) == [x |-> x, y |-> y, finalPlacement |-> fp]
    IN  CASE placement = "top" ->
               P(refRect.left * U + HalfDiff(refRect.width, floatingRect.width),
                 refRect.top * U - floatingRect.height * U - o, placement)
          [] placement = "top-start" ->
               P(refRect.left * U, refRect.top * U - floatingRect.height * U - o, placement)
          [] placement = "top-end" ->
               P(RectRight(refRect) * U - floatingRect.width * U,
                 refRect.top * U - floatingRect.height * U - o, placement)
          [] placement = "bottom" ->
               P(refRect.left * U + HalfDiff(refRect.width, floatingRect.width),
                 RectBottom(refRect) * U + o, placement)
          [] placement = "bottom-start" ->
               P(refRect.left * U, RectBottom(refRect) * U + o, placement)
          [] placement = "bottom-end" ->
               P(RectRight(refRect) * U - floatingRect.width * U,
                 RectBottom(refRect) * U + o, placement)
          [] placement = "left" ->
               P(refRect.left * U - floatingRect.width * U - o,
                 refRect.top * U + HalfDiff(refRect.height, floatingRect.height), placement)
          [] placement = "left-start" ->
               P(refRect.left * U - floatingRect.width * U - o, refRect.top * U, placement)
          [] placement = "left-end" ->
               P(refRect.left * U - floatingRect.width * U - o,
                 RectBottom(refRect) * U - floatingRect.height * U, placement)
          [] placement = "right" ->
               P(RectRight(refRect) * U + o,
                 refRect.top * U + HalfDiff(refRect.height, floatingRect.height), placement)
          [] placement = "right-start" ->
               P(RectRight(refRect) * U + o, refRect.top * U, placement)
          [] placement = "right-end" ->
               P(RectRight(refRect) * U + o,
                 RectBottom(refRect) * U - floatingRect.height * U, placement)
          [] OTHER ->
               P(refRect.left * U + HalfDiff(refRect.width, floatingRect.width),
                 RectBottom(refRect) * U + o, "bottom")

\* the twelve placement strings by side word and suffix
Suffixed(word, suffix) ==
    CASE word = "top"    /\ suffix = ""       -> "top"
      [] word = "top"    /\ suffix = "-start" -> "top-start"
      [] word = "top"    /\ suffix = "-end"   -> "top-end"
      [] word = "bottom" /\ suffix = ""       -> "bottom"
      [] word = "bottom" /\ suffix = "-start" -> "bottom-start"
      [] word = "bottom" /\ suffix = "-end"   -> "bottom-end"
      [] word = "left"   /\ suffix = ""       -> "left"
      [] word = "left"   /\ suffix = "-start" -> "left-start"
      [] word = "left"   /\ suffix = "-end"   -> "left-end"
      [] word = "right"  /\ suffix = ""       -> "right"
      [] word = "right"  /\ suffix = "-start" -> "right-start"
      [] word = "right"  /\ suffix = "-end"   -> "right-end"

Suffixes == {"", "-start", "-end"}

\* finalPlacement.includes(word) and finalPlacement.replace(word, by) on a
\* placement string; finalPlacement is one of the twelve after the switch
includes(finalPlacement, word) ==
    \E suffix \in Suffixes : finalPlacement = Suffixed(word, suffix)

replace(finalPlacement, word, by) ==
    IF includes(finalPlacement, word)
    THEN Suffixed(by, CHOOSE suffix \in Suffixes : finalPlacement = Suffixed(word, suffix))
    ELSE finalPlacement

\* const padding = 5: minimum distance from the viewport edge
edgePadding == 5

\* the flips without the clamps
flipOnly(pos, refRect, floatingRect, offset, viewportWidth, viewportHeight) ==
    LET o  == offset * U
        pd == edgePadding * U
        w  == floatingRect.width * U
        h  == floatingRect.height * U
        fx == IF pos.x < pd /\ includes(pos.finalPlacement, "left")
              THEN [pos EXCEPT !.finalPlacement = replace(@, "left", "right"),
                               !.x = RectRight(refRect) * U + o]
              ELSE IF pos.x + w > viewportWidth * U - pd
                      /\ includes(pos.finalPlacement, "right")
              THEN [pos EXCEPT !.finalPlacement = replace(@, "right", "left"),
                               !.x = refRect.left * U - w - o]
              ELSE pos
    IN  IF fx.y < pd /\ includes(fx.finalPlacement, "top")
        THEN [fx EXCEPT !.finalPlacement = replace(@, "top", "bottom"),
                        !.y = RectBottom(refRect) * U + o]
        ELSE IF fx.y + h > viewportHeight * U - pd /\ includes(fx.finalPlacement, "bottom")
        THEN [fx EXCEPT !.finalPlacement = replace(@, "bottom", "top"),
                        !.y = refRect.top * U - h - o]
        ELSE fx

\* viewport boundary detection and flipping, horizontal then vertical; pos
\* is the base position, the result is what computePosition holds before it
\* adds the scroll offset
flipAndClamp(pos, refRect, floatingRect, offset, viewportWidth, viewportHeight) ==
    LET o  == offset * U
        pd == edgePadding * U
        w  == floatingRect.width * U
        h  == floatingRect.height * U
        fx == IF pos.x < pd
              THEN IF includes(pos.finalPlacement, "left")
                   THEN [pos EXCEPT !.finalPlacement = replace(@, "left", "right"),
                                    !.x = RectRight(refRect) * U + o]
                   ELSE [pos EXCEPT !.x = pd]
              ELSE IF pos.x + w > viewportWidth * U - pd
              THEN IF includes(pos.finalPlacement, "right")
                   THEN [pos EXCEPT !.finalPlacement = replace(@, "right", "left"),
                                    !.x = refRect.left * U - w - o]
                   ELSE [pos EXCEPT !.x = viewportWidth * U - w - pd]
              ELSE pos
    IN  IF fx.y < pd
        THEN IF includes(fx.finalPlacement, "top")
             THEN [fx EXCEPT !.finalPlacement = replace(@, "top", "bottom"),
                             !.y = RectBottom(refRect) * U + o]
             ELSE [fx EXCEPT !.y = pd]
        ELSE IF fx.y + h > viewportHeight * U - pd
        THEN IF includes(fx.finalPlacement, "bottom")
             THEN [fx EXCEPT !.finalPlacement = replace(@, "bottom", "top"),
                             !.y = refRect.top * U - h - o]
             ELSE [fx EXCEPT !.y = viewportHeight * U - h - pd]
        ELSE fx

\* reference.getBoundingClientRect() after the page scrolled by `by`
ScrolledRect(r, by) == [r EXCEPT !.left = @ - by[1], !.top = @ - by[2]]

\* FloatingUICore.computePosition(reference, floating, {placement, offset}):
\* the rectangles are those getBoundingClientRect returns, win is the window
computePosition(refRect, floatingRect, placement, offset, win) ==
    LET pos == flipAndClamp(computePositionBase(placement, refRect, floatingRect, offset),
                            refRect, floatingRect, offset, win.innerWidth, win.innerHeight)
    IN  [x |-> pos.x + win.scrollX * U, y |-> pos.y + win.scrollY * U]

----------------------------------------------------------------------------
(* applyFallbackPositioning.updatePosition: one positioning pass.  elem is  *)
(* the floating element (inline style and data-actual-placement), e the    *)
(* live values the pass reads: targetRect, the floating element's size,    *)
(* the viewport, the scroll offset and the two font sizes.                 *)

NoTranslate == [x |-> [k |-> "unset", v |-> 0], y |-> [k |-> "unset", v |-> 0],
                value |-> Rat(0, 1), unit |-> ""]

NoStyle ==
    [position |-> "", positionAnchor |-> "",
     top |-> Unset, bottom |-> Unset, left |-> Unset, right |-> Unset,
     translate |-> NoTranslate]

NewElement == [style |-> NoStyle, actual |-> ""]

elRect(e) == [width |-> e.fw, height |-> e.fh]

\* a pass that starts from the placement it used last time
updatePositionSticky(elem, placement, offsetValue, offsetUnit, e) ==
    LET offsetPx == ToUnits(OffsetPx(offsetValue, offsetUnit, e))
        start    == IF elem.actual = "" THEN placement ELSE elem.actual
        fin      == finalPosition(start, e.t, elRect(e), e, offsetPx)
    IN  [style  |-> [elem.style EXCEPT !.position = "absolute",
                                     !.left = Px(fin.x + e.sx * U),
                                     !.top = Px(fin.y + e.sy * U)],
         actual |-> fin.placement]

\* a pass that forgets the scroll offset
updatePositionNoScroll(elem, placement, offsetValue, offsetUnit, e) ==
    LET offsetPx == ToUnits(OffsetPx(offsetValue, offsetUnit, e))
        fin      == finalPosition(placement, e.t, elRect(e), e, offsetPx)
    IN  [style  |-> [elem.style EXCEPT !.position = "absolute",
                                     !.left = Px(fin.x),
                                     !.top = Px(fin.y)],
         actual |-> fin.placement]

updatePosition(elem, placement, offsetValue, offsetUnit, e) ==
    LET offsetPx == ToUnits(OffsetPx(offsetValue, offsetUnit, e))
        fin      == finalPosition(placement, e.t, elRect(e), e, offsetPx)
    IN  [style  |-> [elem.style EXCEPT !.position = "absolute",
                                     !.left = Px(fin.x + e.sx * U),
                                     !.top = Px(fin.y + e.sy * U)],
         actual |-> fin.placement]

----------------------------------------------------------------------------
(* The anchor plugin's onLoad and what it leaves behind: the timers of     *)
(* checkForFlipping, the resize listener handleResize, and the scroll and  *)
(* resize listeners of applyFallbackPositioning.  st is the mutable state  *)
(* the closures share: elem, the window's listeners, the pending timers,     *)
(* hasFlipped and the number of applyFallbackPositioning closures.         *)

flipPadding == 10

Listener(type, fn, id) == [type |-> type, fn |-> fn, id |-> id]

St(e, l, t, h, n) ==
    [el |-> e, listeners |-> l, timers |-> t, hasFlipped |-> h, nFallback |-> n]

\* Object.assign(el.style, anchorStyles): only the properties the record holds
assignStyles(style, styles) ==
    [position       |-> styles.position,
     positionAnchor |-> styles.positionAnchor,
     top     |-> IF styles.top.k = "unset" THEN style.top ELSE styles.top,
     bottom  |-> IF styles.bottom.k = "unset" THEN style.bottom ELSE styles.bottom,
     left    |-> IF styles.left.k = "unset" THEN style.left ELSE styles.left,
     right   |-> IF styles.right.k = "unset" THEN style.right ELSE styles.right,
     translate |-> styles.translate]

\* the six removeProperty calls of checkForFlipping
removeAnchorStyles(style) ==
    [style EXCEPT !.positionAnchor = "", !.top = Unset, !.bottom = Unset,
                  !.left = Unset, !.right = Unset, !.translate = NoTranslate]

\* el.getBoundingClientRect() as the page lays the element out: by the CSS
\* engine while position-anchor is set, at the written document coordinates
\* once the fallback has written left/top
boundingRect(elem, e) ==
    IF elem.style.positionAnchor # ""
    THEN cssLayout(elem.style, e.t, elRect(e), e)
    ELSE [x |-> elem.style.left.v - e.sx * U, y |-> elem.style.top.v - e.sy * U]

isSignificantlyOutOfBounds(r, e) ==
    \/ r.x + e.fw * U < flipPadding * U
    \/ r.x > (e.W - flipPadding) * U
    \/ r.y + e.fh * U < flipPadding * U
    \/ r.y > (e.H - flipPadding) * U

applyFallbackPositioning(st, c, e) ==
    [st EXCEPT !.el = updatePosition(st.el, c.placement, c.offsetValue, c.offsetUnit, e),
               !.listeners = st.listeners \cup
                   {Listener("scroll", "handleUpdate", st.nFallback + 1),
                    Listener("resize", "handleUpdate", st.nFallback + 1)},
               !.nFallback = st.nFallback + 1]

\* checkForFlipping without its hasFlipped guard
checkForFlippingNoGuard(st, c, e) ==
    IF isSignificantlyOutOfBounds(boundingRect(st.el, e), e)
    THEN applyFallbackPositioning(
             [st EXCEPT !.hasFlipped = TRUE,
                        !.el = [st.el EXCEPT !.style = removeAnchorStyles(st.el.style)]],
             c, e)
    ELSE st

\* checkForFlipping that leaves the anchor declarations in place
checkForFlippingKeepCss(st, c, e) ==
    IF st.hasFlipped THEN st
    ELSE IF isSignificantlyOutOfBounds(boundingRect(st.el, e), e)
    THEN applyFallbackPositioning([st EXCEPT !.hasFlipped = TRUE], c, e)
    ELSE st

checkForFlipping(st, c, e) ==
    IF st.hasFlipped THEN st
    ELSE IF isSignificantlyOutOfBounds(boundingRect(st.el, e), e)
    THEN applyFallbackPositioning(
             [st EXCEPT !.hasFlipped = TRUE,
                        !.el = [st.el EXCEPT !.style = removeAnchorStyles(st.el.style)]],
             c, e)
    ELSE st

handleResize(st) ==
    IF ~st.hasFlipped THEN [st EXCEPT !.timers = st.timers + 1] ELSE st

\* every registered handleUpdate runs the same pass
handleUpdate(st, c, e) ==
    [st EXCEPT !.el = updatePosition(st.el, c.placement, c.offsetValue, c.offsetUnit, e)]

\* onLoad once the target element is found
onLoad(st, c, e) ==
    IF c.supports
    THEN [st EXCEPT
            !.el = [st.el EXCEPT !.style =
                      assignStyles(st.el.style,
                          getAnchorCSS(c.anchorName, c.placement, c.offsetValue, c.offsetUnit))],
            !.hasFlipped = FALSE,
            !.timers = st.timers + 1,
            !.listeners = st.listeners \cup {Listener("resize", "handleResize", 0)}]
    ELSE applyFallbackPositioning(st, c, e)

\* the function onLoad returned: on the CSS path it removes handleResize,
\* on the fallback path the handleUpdate of onLoad's applyFallbackPositioning
cleanup(st, c) ==
    IF c.supports
    THEN [st EXCEPT !.listeners = st.listeners \ {Listener("resize", "handleResize", 0)}]
    ELSE [st EXCEPT !.listeners = st.listeners \
                       {Listener("scroll", "handleUpdate", 1),
                        Listener("resize", "handleUpdate", 1)}]

dispatch(type, st, c, e) ==
    LET s1 == IF Listener(type, "handleResize", 0) \in st.listeners
              THEN handleResize(st) ELSE st
    IN  IF \E l \in st.listeners : l.type = type /\ l.fn = "handleUpdate"
        THEN handleUpdate(s1, c, e) ELSE s1

----------------------------------------------------------------------------
(* Strings of the resolver are sequences of characters.  Chars spells the  *)
(* words the code compares against or the documentation names.             *)

Words ==
    {"px", "rem", "em", "%", "vw", "vh", "cm", "PX", "diagonal", "#t",
     "t", "bottom", "top", "left", "top-start", "top-end", "bottom-start",
     "bottom-end", "left-start", "left-end", "right", "right-start",
     "right-end", "my-button", "#my-button", "button", "div", "#missing",
     "#nav.item", "#nav-item", "nav.item", "nav-item", ">>", "--anchor-",
     "anchor-", "5px", "anchor", "tooltip", "modal", "/dist/", "/fallback/",
     "-browser", ".js", "unknown", "Datastar", "Plugin", "DatastarAnchorPlugin",
     "DatastarTooltipPlugin", "DatastarModalPlugin", "DatastarDropdownPlugin"}

Chars(w) ==
    CASE w = "px"            -> <<"p", "x">>
      [] w = "rem"           -> <<"r", "e", "m">>
      [] w = "em"            -> <<"e", "m">>
      [] w = "%"             -> <<"%">>
      [] w = "vw"            -> <<"v", "w">>
      [] w = "vh"            -> <<"v", "h">>
      [] w = "cm"            -> <<"c", "m">>
      [] w = "PX"            -> <<"P", "X">>
      [] w = "diagonal"      -> <<"d", "i", "a", "g", "o", "n", "a", "l">>
      [] w = "#t"            -> <<"#", "t">>
      [] w = "t"             -> <<"t">>
      [] w = "bottom"        -> <<"b", "o", "t", "t", "o", "m">>
      [] w = "top"           -> <<"t", "o", "p">>
      [] w = "left"          -> <<"l", "e", "f", "t">>
      [] w = "top-start"     -> <<"t", "o", "p", "-", "s", "t", "a", "r", "t">>
      [] w = "top-end"       -> <<"t", "o", "p", "-", "e", "n", "d">>
      [] w = "bottom-start"  -> <<"b", "o", "t", "t", "o", "m", "-", "s", "t", "a", "r", "t">>
      [] w = "bottom-end"    -> <<"b", "o", "t", "t", "o", "m", "-", "e", "n", "d">>
      [] w = "left-start"    -> <<"l", "e", "f", "t", "-", "s", "t", "a", "r", "t">>
      [] w = "left-end"      -> <<"l", "e", "f", "t", "-", "e", "n", "d">>
      [] w = "right"         -> <<"r", "i", "g", "h", "t">>
      [] w = "right-start"   -> <<"r", "i", "g", "h", "t", "-", "s", "t", "a", "r", "t">>
      [] w = "right-end"     -> <<"r", "i", "g", "h", "t", "-", "e", "n", "d">>
      [] w = "my-button"     -> <<"m", "y", "-", "b", "u", "t", "t", "o", "n">>
      [] w = "#my-button"    -> <<"#", "m", "y", "-", "b", "u", "t", "t", "o", "n">>
      [] w = "button"        -> <<"b", "u", "t", "t", "o", "n">>
      [] w = "div"           -> <<"d", "i", "v">>
      [] w = "#missing"      -> <<"#", "m", "i", "s", "s", "i", "n", "g">>
      [] w = "#nav.item"     -> <<"#", "n", "a", "v", ".", "i", "t", "e", "m">>
      [] w = "#nav-item"     -> <<"#", "n", "a", "v", "-", "i", "t", "e", "m">>
      [] w = "nav.item"      -> <<"n", "a", "v", ".", "i", "t", "e", "m">>
      [] w = "nav-item"      -> <<"n", "a", "v", "-", "i", "t", "e", "m">>
      [] w = ">>"            -> <<">", ">">>
      [] w = "--anchor-"     -> <<"-", "-", "a", "n", "c", "h", "o", "r", "-">>
      [] w = "anchor-"       -> <<"a", "n", "c", "h", "o", "r", "-">>
      [] w = "5px"           -> <<"5", "p", "x">>
      [] w = "anchor"         -> <<"a", "n", "c", "h", "o", "r">>
      [] w = "tooltip"        -> <<"t", "o", "o", "l", "t", "i", "p">>
      [] w = "modal"          -> <<"m", "o", "d", "a", "l">>
      [] w = "/dist/"         -> <<"/", "d", "i", "s", "t", "/">>
      [] w = "/fallback/"     -> <<"/", "f", "a", "l", "l", "b", "a", "c", "k", "/">>
      [] w = "-browser"       -> <<"-", "b", "r", "o", "w", "s", "e", "r">>
      [] w = ".js"            -> <<".", "j", "s">>
      [] w = "unknown"        -> <<"u", "n", "k", "n", "o", "w", "n">>
      [] w = "Datastar"       -> <<"D", "a", "t", "a", "s", "t", "a", "r">>
      [] w = "Plugin"         -> <<"P", "l", "u", "g", "i", "n">>
      [] w = "DatastarAnchorPlugin" -> <<"D", "a", "t", "a", "s", "t", "a", "r", "A", "n", "c", "h", "o", "r", "P", "l", "u", "g", "i", "n">>
      [] w = "DatastarTooltipPlugin" -> <<"D", "a", "t", "a", "s", "t", "a", "r", "T", "o", "o", "l", "t", "i", "p", "P", "l", "u", "g", "i", "n">>
      [] w = "DatastarModalPlugin" -> <<"D", "a", "t", "a", "s", "t", "a", "r", "M", "o", "d", "a", "l", "P", "l", "u", "g", "i", "n">>
      [] w = "DatastarDropdownPlugin" -> <<"D", "a", "t", "a", "s", "t", "a", "r", "D", "r", "o", "p", "d", "o", "w", "n", "P", "l", "u", "g", "i", "n">>

\* the word a character sequence spells, "?" when it spells none of Words
Text(s) ==
    IF \E w \in Words : Chars(w) = s
    THEN CHOOSE w \in Words : Chars(w) = s
    ELSE "?"

\* the character classes \s, \d and [a-z%] of the offset pattern
SpaceClass == {" "}
DigitClass == {"0", "1", "2", "3", "4", "5", "6", "7", "8", "9"}
UnitClass ==
    {"%", "a", "b", "c", "d", "e", "f", "g", "h", "i", "j", "k", "l", "m",
     "n", "o", "p", "q", "r", "s", "t", "u", "v", "w", "x", "y", "z"}

IsSpace(c) == c \in SpaceClass
IsQuote(c) == c \in {"'", "\""}
IsDigit(c) == c \in DigitClass

DigitVal(c) ==
    CASE c = "0" -> 0 [] c = "1" -> 1 [] c = "2" -> 2 [] c = "3" -> 3 [] c = "4" -> 4
      [] c = "5" -> 5 [] c = "6" -> 6 [] c = "7" -> 7 [] c = "8" -> 8 [] c = "9" -> 9

\* String.prototype.trim
trim(s) ==
    LET keep == {i \in 1..Len(s) : ~IsSpace(s[i])}
    IN  IF keep = {} THEN <<>> ELSE SubSeq(s, MinOf(keep), MaxOf(keep))

\* value.replace(/^['"]|['"]$/g, '')
stripQuotes(s) ==
    LET a == IF Len(s) > 0 /\ IsQuote(s[1]) THEN Tail(s) ELSE s
    IN  IF Len(a) > 0 /\ IsQuote(a[Len(a)]) THEN SubSeq(a, 1, Len(a) - 1) ELSE a

\* String.prototype.split(',')
RECURSIVE split(_)
split(s) ==
    LET commas == {i \in 1..Len(s) : s[i] = ","}
    IN  IF commas = {} THEN <<s>>
        ELSE <<SubSeq(s, 1, MinOf(commas) - 1)>> \o
             split(SubSeq(s, MinOf(commas) + 1, Len(s)))

MapTrim(parts) == [i \in 1..Len(parts) |-> trim(parts[i])]
NonEmpty(part) == Len(part) > 0

\* the end of the run of characters of class that starts at index from
\* (from - 1 when the run is empty)
RunEnd(s, from, class) ==
    MaxOf({j \in (from - 1)..Len(s) : \A i \in from..j : s[i] \in class})

\* str.match(/^(\d+(?:\.\d+)?)\s*([a-z%]*)?$/): whether it matches, and the
\* two groups
offsetMatch(s) ==
    LET intEnd  == RunEnd(s, 1, DigitClass)
        hasDot  == intEnd < Len(s) /\ s[intEnd + 1] = "."
        fracEnd == IF hasDot THEN RunEnd(s, intEnd + 2, DigitClass) ELSE intEnd
        takeDot == hasDot /\ fracEnd >= intEnd + 2
        numEnd  == IF takeDot THEN fracEnd ELSE intEnd
        spEnd   == RunEnd(s, numEnd + 1, SpaceClass)
        unitEnd == RunEnd(s, spEnd + 1, UnitClass)
    IN  [ok   |-> intEnd >= 1 /\ unitEnd = Len(s),
         int  |-> SubSeq(s, 1, intEnd),
         frac |-> IF takeDot THEN SubSeq(s, intEnd + 2, fracEnd) ELSE <<>>,
         unit |-> SubSeq(s, spEnd + 1, unitEnd)]

RECURSIVE DigitsVal(_)
DigitsVal(ds) ==
    IF ds = <<>> THEN 0 ELSE DigitsVal(SubSeq(ds, 1, Len(ds) - 1)) * 10 + DigitVal(ds[Len(ds)])

RECURSIVE Pow10(_)
Pow10(k) == IF k = 0 THEN 1 ELSE 10 * Pow10(k - 1)

\* parseFloat of the first group
parseFloat(m) ==
    Rat(DigitsVal(m.int) * Pow10(Len(m.frac)) + DigitsVal(m.frac), Pow10(Len(m.frac)))

\* a || b on strings: the empty string is falsy
OrElse(a, b) == IF Len(a) > 0 THEN a ELSE b

\* el.getAttribute(name) || dflt: null and the empty string are falsy
AttrOr(attr, dflt) == IF attr.null THEN dflt ELSE OrElse(attr.s, dflt)

Parsed(target, placement, offsetValue, offsetUnit) ==
    [target |-> target, placement |-> placement,
     offsetValue |-> offsetValue, offsetUnit |-> offsetUnit]

\* parseAnchorConfig with the comma form falling back to the attributes for a
\* missing placement or offset
parseAnchorConfigAttrDefaults(attrs, value) ==
    LET cleanValue == trim(stripQuotes(value))
    IN  IF \E i \in 1..Len(cleanValue) : cleanValue[i] = ","
        THEN LET parts     == SelectSeq(MapTrim(split(cleanValue)), NonEmpty)
                 target    == IF Len(parts) >= 1 THEN parts[1] ELSE <<>>
                 placement == IF Len(parts) >= 2 THEN parts[2]
                              ELSE AttrOr(attrs.placement, Chars("bottom"))
                 m         == IF Len(parts) >= 3 THEN offsetMatch(parts[3])
                              ELSE offsetMatch(AttrOr(attrs.offset, <<"8">>))
             IN  IF m.ok
                 THEN Parsed(target, placement, parseFloat(m), OrElse(m.unit, Chars("px")))
                 ELSE Parsed(target, placement, Rat(8, 1), Chars("px"))
        ELSE LET target    == OrElse(cleanValue, AttrOr(attrs.anchor, <<>>))
                 placement == AttrOr(attrs.placement, Chars("bottom"))
                 offsetAttr == AttrOr(attrs.offset, <<"8">>)
                 m         == offsetMatch(offsetAttr)
             IN  Parsed(target, placement,
                        IF m.ok THEN parseFloat(m) ELSE Rat(8, 1),
                        IF m.ok THEN OrElse(m.unit, Chars("px")) ELSE Chars("px"))

parseAnchorConfig(attrs, value) ==
    LET cleanValue == trim(stripQuotes(value))
    IN  IF \E i \in 1..Len(cleanValue) : cleanValue[i] = ","
        THEN LET parts     == SelectSeq(MapTrim(split(cleanValue)), NonEmpty)
                 target    == IF Len(parts) >= 1 THEN parts[1] ELSE <<>>
                 placement == IF Len(parts) >= 2 THEN parts[2] ELSE Chars("bottom")
                 m         == IF Len(parts) >= 3 THEN offsetMatch(parts[3])
                              ELSE [ok |-> FALSE]
             IN  IF Len(parts) >= 3 /\ m.ok
                 THEN Parsed(target, placement, parseFloat(m), OrElse(m.unit, Chars("px")))
                 ELSE Parsed(target, placement, Rat(8, 1), Chars("px"))
        ELSE LET target    == OrElse(cleanValue, AttrOr(attrs.anchor, <<>>))
                 placement == AttrOr(attrs.placement, Chars("bottom"))
                 offsetAttr == AttrOr(attrs.offset, <<"8">>)
                 m         == offsetMatch(offsetAttr)
             IN  Parsed(target, placement,
                        IF m.ok THEN parseFloat(m) ELSE Rat(8, 1),
                        IF m.ok THEN OrElse(m.unit, Chars("px")) ELSE Chars("px"))

----------------------------------------------------------------------------
(* Inputs of the resolver: data-anchor values in the comma form and in the *)
(* attribute form, with offset texts built from a number and a unit.       *)

MaxDigits == 2
MaxFrac == 1

NullAttr == [null |-> TRUE, s |-> <<>>]
Attr(s) == [null |-> FALSE, s |-> s]

Digits == {"0", "1", "5"}

DigitStrings(k) == UNION {[1..n -> Digits] : n \in 0..k}

Numbers ==
    {i \o f : i \in DigitStrings(MaxDigits),
              f \in {<<>>} \cup {<<".">> \o d : d \in DigitStrings(MaxFrac)}}

UnitTexts == {<<>>} \cup {Chars(u) : u \in Units \cup {"cm", "PX"}}

OffsetTexts ==
    {n \o u : n \in Numbers, u \in UnitTexts}
    \cup {<<"5", " ">> \o u : u \in UnitTexts}
    \cup {<<"-", "5">> \o Chars("px"), <<" ", "5">>, <<"5", " ", " ">> \o Chars("em"),
          Chars("px"), <<"5">> \o Chars("px") \o <<" ">>}

Quoted(q, s) == IF q THEN <<"'">> \o s \o <<"'">> ELSE s

\* "target, placement, offset" and "target, placement"
CommaValue(t, p, o) == t \o <<",", " ">> \o p \o <<",", " ">> \o o
CommaValue2(t, p) == t \o <<",", " ">> \o p

Attrs(value, placement, offset) ==
    [anchor |-> Attr(value), placement |-> placement, offset |-> offset]

ResolverInput(value, placement, offset) ==
    [value |-> value, attrs |-> Attrs(value, placement, offset)]

\* the offset texts every shape of the attribute is drawn with
CoreOffsetTexts ==
    {<<"5">> \o u : u \in UnitTexts}
    \cup {<<"5", " ">> \o Chars("em"), <<"1", ".", "5">>, <<"-", "5">> \o Chars("px"),
          Chars("px"), <<"5">> \o Chars("px") \o <<" ">>}

\* the comma form in every shape with the core offsets, and in its plain
\* shape "#t, top, offset" with every offset text
CommaInputs ==
    LET values == {Quoted(q, CommaValue(t, p, o)) :
                      q \in BOOLEAN, t \in {Chars("#t"), <<>>},
                      p \in {Chars("top"), Chars("diagonal"), <<>>}, o \in CoreOffsetTexts}
                  \cup {Quoted(q, CommaValue2(t, p)) :
                      q \in BOOLEAN, t \in {Chars("#t"), <<>>},
                      p \in {Chars("top"), Chars("diagonal"), <<>>}}
        plain  == {Quoted(q, CommaValue(Chars("#t"), Chars("top"), o)) :
                      q \in BOOLEAN, o \in OffsetTexts}
    IN  {ResolverInput(v, a[1], a[2]) :
            v \in values,
            a \in {<<NullAttr, NullAttr>>,
                   <<Attr(Chars("left")), Attr(<<"5">> \o Chars("rem"))>>}}
        \cup {ResolverInput(v, NullAttr, NullAttr) : v \in plain}

\* the attribute form likewise
AttributeInputs ==
    {ResolverInput(Quoted(q, t), pa, oa) :
        q \in BOOLEAN, t \in {Chars("#t"), Chars("t"), <<>>},
        pa \in {NullAttr, Attr(<<>>), Attr(Chars("top")), Attr(Chars("diagonal"))},
        oa \in {NullAttr} \cup {Attr(o) : o \in CoreOffsetTexts}}
    \cup {ResolverInput(Chars("#t"), NullAttr, Attr(o)) : o \in OffsetTexts}

ResolverInputs == CommaInputs \cup AttributeInputs

\* the two pages an offset is converted on
ConvEnvs ==
    {Env(Rect(40, 15, 30, 20), 20, 10, vp[1], vp[2], 0, 0) : vp \in {<<120, 90>>, <<200, 150>>}}

NotParsed ==
    [op |-> "none", r |-> Parsed(<<>>, <<>>, Rat(0, 1), <<>>), px |-> Rat(0, 1),
     e |-> Env(Rect(0, 0, 0, 0), 0, 0, 0, 0, 0, 0)]

IdleParse ==
    /\ pin = ResolverInput(<<>>, NullAttr, NullAttr)
    /\ pout = NotParsed

----------------------------------------------------------------------------
(* The page of the lifecycle model: a 30x20 target at a document position, *)
(* a 20x10 floating element, a viewport and a scroll offset.               *)

Page(spot, vp, sc) ==
    [dl |-> spot[1], dt |-> spot[2], W |-> vp[1], H |-> vp[2], sx |-> sc[1], sy |-> sc[2]]

\* what a pass reads from the page: getBoundingClientRect is relative to the
\* viewport, so the target's rectangle moves with the scroll offset
PageEnv(v) ==
    Env(Rect(v.dl - v.sx, v.dt - v.sy, 30, 20), 20, 10, v.W, v.H, v.sx, v.sy)

Config(p, o, supports) ==
    [placement |-> p, offsetValue |-> Rat(o[1], 1), offsetUnit |-> o[2],
     supports |-> supports, anchorName |-> "--anchor-t"]

NoPass == [set |-> FALSE, inputs |-> PageEnv(Page(<<0, 0>>, <<0, 0>>, <<0, 0>>)),
           el |-> NewElement]

IdleLife ==
    /\ cfg = Config("bottom", <<8, "px">>, FALSE)
    /\ env = Page(<<0, 0>>, <<0, 0>>, <<0, 0>>)
    /\ el = NewElement
    /\ listeners = {}
    /\ timers = 0
    /\ hasFlipped = FALSE
    /\ phase = "idle"
    /\ nFallback = 0
    /\ last = [op |-> "none", pass |-> FALSE]
    /\ first = NoPass

----------------------------------------------------------------------------
(* Target lookup of onLoad: the document holds the elements a data-anchor  *)
(* value can name, in document order; each has an id (empty when it has    *)
(* none), a tag name and the anchor-name written to its inline style.      *)

Element(id, tag) == [id |-> id, tag |-> tag, anchorName |-> <<>>]

UpperClass ==
    {"A", "B", "C", "D", "E", "F", "G", "H", "I", "J", "K", "L", "M",
     "N", "O", "P", "Q", "R", "S", "T", "U", "V", "W", "X", "Y", "Z"}

\* [a-zA-Z0-9]
IsAlnum(c) == c \in (UnitClass \ {"%"}) \cup UpperClass \cup DigitClass

\* `--anchor-${targetId.replace(/[^a-zA-Z0-9]/g, '-')}`
generateAnchorName(targetId) ==
    Chars("--anchor-") \o
        [i \in 1..Len(targetId) |-> IF IsAlnum(targetId[i]) THEN targetId[i] ELSE "-"]

\* the decimal digits of Date.now()
DigitChar(n) ==
    CASE n = 0 -> "0" [] n = 1 -> "1" [] n = 2 -> "2" [] n = 3 -> "3" [] n = 4 -> "4"
      [] n = 5 -> "5" [] n = 6 -> "6" [] n = 7 -> "7" [] n = 8 -> "8" [] n = 9 -> "9"

RECURSIVE NumberText(_)
NumberText(n) ==
    IF n < 10 THEN <<DigitChar(n)>> ELSE NumberText(n \div 10) \o <<DigitChar(n % 10)>>

\* document.getElementById: the first element with that id, 0 for null
getElementById(doc, id) ==
    LET hits == {i \in 1..Len(doc) : doc[i].id = id}
    IN  IF id = <<>> \/ hits = {} THEN 0 ELSE MinOf(hits)

\* a CSS type selector: an identifier (a letter, then letters, digits, hyphens)
IsTypeSelector(sel) ==
    /\ Len(sel) > 0
    /\ sel[1] \in (UnitClass \ {"%"}) \cup UpperClass
    /\ \A i \in 1..Len(sel) : IsAlnum(sel[i]) \/ sel[i] = "-"

\* document.querySelector on the selectors the model draws: a type selector
\* matches the first element with that tag name; a string that is no
\* selector makes it throw a SyntaxError
querySelector(doc, sel) ==
    IF IsTypeSelector(sel)
    THEN LET hits == {i \in 1..Len(doc) : Chars(doc[i].tag) = sel}
         IN  [threw |-> FALSE, idx |-> IF hits = {} THEN 0 ELSE MinOf(hits)]
    ELSE [threw |-> TRUE, idx |-> 0]

\* the lookup of the guide's version of the plugin: getElementById of the
\* target with a leading '#' removed
findTargetById(doc, target) ==
    [threw |-> FALSE,
     idx |-> getElementById(doc, IF target[1] = "#" THEN Tail(target) ELSE target)]

\* onLoad's lookup: getElementById for '#...', querySelector otherwise
findTarget(doc, target) ==
    IF target[1] = "#"
    THEN [threw |-> FALSE, idx |-> getElementById(doc, Tail(target))]
    ELSE querySelector(doc, target)

\* the page the floating element of the lookup model is positioned on
LookupEnv == PageEnv(Page(<<40, 15>>, <<120, 90>>, <<0, 0>>))

NewSt == St(NewElement, {}, 0, FALSE, 0)

\* what one call of onLoad leaves behind
Loaded(outcome, target, idx, st) ==
    [outcome |-> outcome, target |-> target, idx |-> idx, st |-> st]

NotLoaded == Loaded("none", <<>>, 0, NewSt)

\* onLoad once the target element is found: the target's id and anchor-name,
\* then the positioning of the floating element
attachTo(d, r, idx, supports) ==
    LET targetElement == d.doc[idx]
        targetId   == IF targetElement.id # <<>> THEN targetElement.id
                      ELSE Chars("anchor-") \o NumberText(d.now)
        anchorName == generateAnchorName(targetId)
        c == [placement |-> Text(r.placement), offsetValue |-> r.offsetValue,
              offsetUnit |-> Text(r.offsetUnit), supports |-> supports,
              anchorName |-> anchorName]
    IN  [d EXCEPT
           !.doc[idx].id = targetId,
           !.doc[idx].anchorName =
               IF supports THEN anchorName ELSE targetElement.anchorName,
           !.look = Loaded("attached", r.target, idx, onLoad(NewSt, c, LookupEnv))]

\* onLoad without its `if (!target)` guard: the empty target goes on to
\* document.querySelector(''), which throws
onLoadFromNoGuard(d, value, attrs, supports) ==
    LET r     == parseAnchorConfig(attrs, value)
        found == IF r.target = <<>> THEN [threw |-> TRUE, idx |-> 0]
                 ELSE findTarget(d.doc, r.target)
    IN  IF found.threw THEN [d EXCEPT !.look = Loaded("threw", r.target, 0, NewSt)]
        ELSE IF found.idx = 0 THEN [d EXCEPT !.look = Loaded("notFound", r.target, 0, NewSt)]
        ELSE attachTo(d, r, found.idx, supports)

\* onLoad from the data-anchor value to the positioned element
onLoadFrom(d, value, attrs, supports) ==
    LET r     == parseAnchorConfig(attrs, value)
        found == findTarget(d.doc, r.target)
    IN  IF r.target = <<>> THEN [d EXCEPT !.look = Loaded("noTarget", r.target, 0, NewSt)]
        ELSE IF found.threw THEN [d EXCEPT !.look = Loaded("threw", r.target, 0, NewSt)]
        ELSE IF found.idx = 0 THEN [d EXCEPT !.look = Loaded("notFound", r.target, 0, NewSt)]
        ELSE attachTo(d, r, found.idx, supports)

IdleDom ==
    dom = [doc |-> <<>>, now |-> 0, supports |-> FALSE, calls |-> 0, look |-> NotLoaded,
           input |-> ResolverInput(<<>>, NullAttr, NullAttr)]

----------------------------------------------------------------------------
(* DatastarPluginLoader.  A load is one call of doLoadPlugin: it waits for *)
(* the loads of its dependencies, then for the script fetch, then (when    *)
(* the fetch failed and options.fallback is set) for the fetch of the      *)
(* fallback URL.  A plugin object is named by the number of the load whose *)
(* script evaluation created it; 0 is null / undefined.  A caller is one   *)
(* call of loadPlugin from outside the loader.                             *)

PluginNames == {"anchor", "tooltip", "modal"}

\* versions '1.0.0' and '2.0.0'; 0 stands for options.version left out
Versions == {1, 2}

NoVersion == [present |-> FALSE, dependencies |-> <<>>]
Version(dependencies) == [present |-> TRUE, dependencies |-> dependencies]
NoInfo == [present |-> FALSE, latest |-> 0, versions |-> <<NoVersion, NoVersion>>]
PluginInfo(latest, v1, v2) == [present |-> TRUE, latest |-> latest, versions |-> <<v1, v2>>]

initializeRegistry ==
    [n \in PluginNames |->
        CASE n = "anchor"  -> PluginInfo(1, Version(<<>>), NoVersion)
          [] n = "tooltip" -> PluginInfo(1, Version(<<"anchor">>), NoVersion)
          [] OTHER         -> NoInfo]

\* registry[key] = newRegistry[key] for every key of newRegistry
updateRegistry(L, newRegistry) ==
    [L EXCEPT !.registry = [n \in PluginNames |->
                               IF newRegistry[n].present THEN newRegistry[n] ELSE @[n]]]

Options(version, fallback) == [version |-> version, fallback |-> fallback]

\* `${cdn}${versionInfo.url}` of the registry and the options.fallback URL
RegistryUrl(name) == Chars("/dist/") \o Chars(name) \o Chars("-browser") \o Chars(".js")
FallbackUrl(name) == Chars("/fallback/") \o Chars(name) \o Chars(".js")

\* the global a plugin's script defines: window.Datastar<Name>Plugin
LowerLetters == <<"a", "b", "c", "d", "e", "f", "g", "h", "i", "j", "k", "l", "m",
                  "n", "o", "p", "q", "r", "s", "t", "u", "v", "w", "x", "y", "z">>
UpperLetters == <<"A", "B", "C", "D", "E", "F", "G", "H", "I", "J", "K", "L", "M",
                  "N", "O", "P", "Q", "R", "S", "T", "U", "V", "W", "X", "Y", "Z">>

toUpperCase(c) ==
    IF \E k \in 1..Len(LowerLetters) : LowerLetters[k] = c
    THEN UpperLetters[CHOOSE k \in 1..Len(LowerLetters) : LowerLetters[k] = c]
    ELSE c

capitalize(str) ==
    IF str = <<>> THEN <<>> ELSE <<toUpperCase(str[1])>> \o SubSeq(str, 2, Len(str))

GlobalName(pluginName) == Chars("Datastar") \o capitalize(pluginName) \o Chars("Plugin")

EndsWith(s, suffix) ==
    /\ Len(s) >= Len(suffix)
    /\ SubSeq(s, Len(s) - Len(suffix) + 1, Len(s)) = suffix

LastIndexOf(s, c) ==
    IF \E k \in 1..Len(s) : s[k] = c
    THEN CHOOSE k \in 1..Len(s) : s[k] = c /\ \A j \in (k + 1)..Len(s) : s[j] # c
    ELSE 0

\* url.match(/\/([^\/]+)(?:-browser)?\.js$/): the greedy [^\/]+ takes
\* everything between the last slash and ".js", the optional group nothing
extractPluginNameFromUrl(url) ==
    LET slash == LastIndexOf(url, "/")
        stem  == SubSeq(url, slash + 1, Len(url) - 3)
    IN  IF EndsWith(url, Chars(".js")) /\ slash > 0 /\ stem # <<>>
        THEN stem
        ELSE Chars("unknown")

\* the IIFE build: the file name without ".js" and without "-browser",
\* its parts split at the non-alphanumerics and capitalized
extractPluginNameFromUrlIife(url) ==
    LET file       == SubSeq(url, LastIndexOf(url, "/") + 1, Len(url))
        withoutExt == IF EndsWith(file, Chars(".js"))
                      THEN SubSeq(file, 1, Len(file) - 3) ELSE file
        base       == IF EndsWith(withoutExt, Chars("-browser"))
                      THEN SubSeq(withoutExt, 1, Len(withoutExt) - 8) ELSE withoutExt
    IN  IF base = <<>> THEN Chars("unknown") ELSE base

RECURSIVE normalizeToPascalCase(_)
normalizeToPascalCase(name) ==
    IF name = <<>> THEN <<>>
    ELSE IF ~IsAlnum(name[1]) THEN normalizeToPascalCase(Tail(name))
    ELSE LET end == RunEnd(name, 1, (UnitClass \ {"%"}) \cup UpperClass \cup DigitClass)
         IN  capitalize(SubSeq(name, 1, end))
                \o normalizeToPascalCase(SubSeq(name, end + 1, Len(name)))

Global(window, g) == IF g \in DOMAIN window THEN window[g] ELSE 0

candidates == <<Chars("DatastarAnchorPlugin"), Chars("DatastarTooltipPlugin"),
                Chars("DatastarModalPlugin"), Chars("DatastarDropdownPlugin")>>

findRecentlyAddedGlobal(window) ==
    IF \E k \in 1..Len(candidates) : Global(window, candidates[k]) # 0
    THEN Global(window, candidates[CHOOSE k \in 1..Len(candidates) :
                    /\ Global(window, candidates[k]) # 0
                    /\ \A j \in 1..(k - 1) : Global(window, candidates[j]) = 0])
    ELSE 0

\* script.onload of the IIFE build
loadPluginScriptIife(window, url) ==
    LET globalName == Chars("Datastar")
                         \o normalizeToPascalCase(extractPluginNameFromUrlIife(url))
                         \o Chars("Plugin")
    IN  IF Global(window, globalName) # 0 THEN Global(window, globalName)
        ELSE findRecentlyAddedGlobal(window)

\* script.onload: the plugin the promise of loadPluginScript resolves to
loadPluginScript(window, url) ==
    LET globalName == GlobalName(extractPluginNameFromUrl(url))
    IN  IF Global(window, globalName) # 0 THEN Global(window, globalName)
        ELSE findRecentlyAddedGlobal(window)

NoPlugin == [loaded |-> FALSE, version |-> 0, plugin |-> 0]

\* awaits: the loads whose promises `await this.loadPlugins(dependencies)`
\* waits for
Load(name, version, pc, fallback, awaits) ==
    [name |-> name, version |-> version, pc |-> pc, fallback |-> fallback,
     awaits |-> awaits, dependencies |-> <<>>, plugin |-> 0, pluginIife |-> 0,
     cleared |-> FALSE]

NewLoader ==
    [loadedPlugins   |-> [n \in PluginNames |-> NoPlugin],
     loadingPromises |-> [n \in PluginNames |-> 0],
     registry |-> initializeRegistry,
     window   |-> [g \in {GlobalName(Chars(n)) : n \in PluginNames} |-> 0],
     datastar |-> <<>>,
     loads    |-> <<>>,
     callers  |-> <<>>,
     calls    |-> 0,
     unloads  |-> 0,
     overflow |-> FALSE,
     sinceUnload |-> [n \in PluginNames |-> FALSE],
     fetches  |-> [n \in PluginNames |-> 0],
     failed   |-> [n \in PluginNames |-> 0]]

isPluginLoaded(L, name) == L.loadedPlugins[name].loaded

InFlight(L, i) == L.loads[i].pc \in {"deps", "fetch", "fallback"}

\* the promise of load i settles: the callers that hold it settle with it
settleCallers(L, i) ==
    [L EXCEPT !.callers = [c \in 1..Len(@) |->
        IF @[c].h = i /\ @[c].pc = "pending"
        THEN [@[c] EXCEPT !.pc = IF L.loads[i].pc = "done" THEN "resolved" ELSE "rejected",
                          !.plugin = L.loads[i].plugin]
        ELSE @[c]]]

\* the script fetch of a load starts
startFetch(L, i) ==
    [L EXCEPT !.loads[i].pc = "fetch",
              !.fetches[L.loads[i].name] = @ + 1]

rejectLoad(L, i) ==
    settleCallers([L EXCEPT !.loads[i].pc = "failed", !.failed[L.loads[i].name] = @ + 1], i)

\* a new load that is rejected before its first await
rejectedLoad(L, name, version, options) ==
    [L EXCEPT !.loads = Append(@, Load(name, version, "failed", options.fallback, {})),
              !.failed[name] = @ + 1]

\* the synchronous part of loadPlugin(name, options), loadPlugins and
\* doLoadPlugin up to the first await.  stack holds the names whose
\* doLoadPlugin is on the call stack: a name that is entered again recurses
\* until the engine's call stack is exhausted, and the RangeError rejects
\* the innermost promise.  h is the load the returned promise follows, 0
\* when it is resolved already.
RECURSIVE loadPlugin(_, _, _, _)
RECURSIVE loadPlugins(_, _, _, _)
RECURSIVE doLoadPlugin(_, _, _, _)

doLoadPlugin(L, name, options, stack) ==
    LET pluginInfo == L.registry[name]
        version    == IF options.version # 0 THEN options.version ELSE pluginInfo.latest
    IN  IF ~pluginInfo.present THEN rejectedLoad(L, name, 0, options)
        ELSE IF version \notin Versions \/ ~pluginInfo.versions[version].present
        THEN rejectedLoad(L, name, version, options)
        ELSE IF name \in stack
        THEN [rejectedLoad(L, name, version, options) EXCEPT !.overflow = TRUE]
        ELSE LET deps == pluginInfo.versions[version].dependencies
                 R    == loadPlugins(L, deps, options, stack \cup {name})
                 i    == Len(R.L.loads) + 1
                 L2   == [R.L EXCEPT !.loads = Append(@,
                             [Load(name, version, "deps", options.fallback, R.hs)
                                 EXCEPT !.dependencies = deps])]
             IN  IF deps = <<>> THEN startFetch(L2, i) ELSE L2

loadPlugins(L, names, options, stack) ==
    IF names = <<>> THEN [L |-> L, hs |-> {}]
    ELSE LET r    == loadPlugin(L, Head(names), options, stack)
             rest == loadPlugins(r.L, Tail(names), options, stack)
         IN  [L |-> rest.L, hs |-> (IF r.h = 0 THEN {} ELSE {r.h}) \cup rest.hs]

loadPlugin(L, name, options, stack) ==
    LET L0 == [L EXCEPT !.sinceUnload[name] = FALSE]
    IN  IF isPluginLoaded(L0, name) THEN [L |-> L0, h |-> 0]
        ELSE IF L0.loadingPromises[name] # 0
        THEN [L |-> L0, h |-> L0.loadingPromises[name]]
        ELSE LET L1 == doLoadPlugin(L0, name, options, stack)
             IN  [L |-> [L1 EXCEPT !.loadingPromises[name] = Len(L1.loads)],
                  h |-> Len(L1.loads)]

\* a call of loadPlugin from outside: the caller holds the returned promise
callLoadPlugin(L, name, options) ==
    LET r  == loadPlugin(L, name, options, {})
        L1 == r.L
        requested == IF options.version # 0 THEN options.version
                     ELSE L.registry[name].latest
        pc == IF r.h = 0 \/ L1.loads[r.h].pc = "done" THEN "resolved"
              ELSE IF L1.loads[r.h].pc = "failed" THEN "rejected"
              ELSE "pending"
        plugin == IF r.h = 0 THEN L1.loadedPlugins[name].plugin ELSE L1.loads[r.h].plugin
    IN  [L1 EXCEPT !.callers = Append(@, [name |-> name, version |-> requested,
                                          h |-> r.h, pc |-> pc, plugin |-> plugin])]

\* doLoadPlugin after `await this.loadPlugins(dependencies)`
afterDependencies(L, i, ok) ==
    IF ok THEN startFetch(L, i) ELSE rejectLoad(L, i)

\* the script at url has run: it defined its global anew, and onload looked
\* the plugin up (pluginIife: what onload of the IIFE build finds)
evaluated(L, i, url) ==
    LET window == [L.window EXCEPT ![GlobalName(Chars(L.loads[i].name))] = i]
    IN  [L EXCEPT !.window = window,
                  !.loads[i].plugin = loadPluginScript(window, url),
                  !.loads[i].pluginIife = loadPluginScriptIife(window, url)]

\* doLoadPlugin after `await this.fetchPlugin(url, options)`: datastar.load,
\* loadedPlugins.set, return plugin
afterFetch(L, i, ok) ==
    LET name == L.loads[i].name
        L1   == evaluated(L, i, RegistryUrl(name))
    IN  IF ok
        THEN settleCallers(
               [L1 EXCEPT !.loads[i].pc = "done",
                          !.datastar = Append(@, name),
                          !.loadedPlugins[name] =
                              [loaded |-> TRUE, version |-> L.loads[i].version,
                               plugin |-> L1.loads[i].plugin]], i)
        ELSE IF L.loads[i].fallback
        THEN [L EXCEPT !.loads[i].pc = "fallback", !.fetches[name] = @ + 1]
        ELSE rejectLoad(L, i)

\* the promise of `return this.fetchPlugin(options.fallback, options)` settles
afterFallback(L, i, ok) ==
    IF ok
    THEN settleCallers([evaluated(L, i, FallbackUrl(L.loads[i].name))
                           EXCEPT !.loads[i].pc = "done"], i)
    ELSE rejectLoad(L, i)

\* loadPlugin without the catch branch: the entry stays after a rejection
afterLoadNoCatch(L, i) ==
    IF L.loads[i].pc = "failed"
    THEN [L EXCEPT !.loads[i].cleared = TRUE]
    ELSE [L EXCEPT !.loads[i].cleared = TRUE,
                   !.loadingPromises[L.loads[i].name] = 0]

\* loadPlugin after `await promise`: this.loadingPromises.delete(name)
afterLoad(L, i) ==
    [L EXCEPT !.loads[i].cleared = TRUE,
              !.loadingPromises[L.loads[i].name] = 0]

unloadPlugin(L, name) ==
    [L EXCEPT !.loadedPlugins[name] = NoPlugin,
              !.loadingPromises[name] = 0,
              !.sinceUnload[name] = TRUE]

IdleLoader == loader = NewLoader

----------------------------------------------------------------------------
(* Persist plugin (the guide's working implementation).  One signal,       *)
(* count, is persisted; Absent stands for a signal that does not exist and *)
(* for an object without the key.  Time is counted in ticks; the debounce  *)
(* timer holds the ticks left until it fires, NoTimer when none is set.    *)

Absent == -1
NoTimer == -1

\* what getItem(storageKey) returns: null, text that is not JSON, JSON that
\* is no object, or a JSON object (with or without the key count)
Stored(kind, count) == [kind |-> kind, count |-> count]

NewPersist(count, stored, throttleMs) ==
    [count |-> count, stored |-> stored, throttleMs |-> throttleMs,
     phase |-> "new", cachedSignalData |-> Absent, timer |-> NoTimer,
     batch |-> 0, threw |-> FALSE, patched |-> FALSE,
     age |-> 0, changes |-> 0, burst |-> 0, pending |-> 0, attempts |-> 0,
     writes |-> 0, written |-> Absent, loadFailed |-> FALSE, op |-> "none"]

\* loadFromStorage with JSON.parse outside its try block
loadFromStorageNoCatch(P, fail) ==
    IF fail = "getItem" THEN P
    ELSE IF P.stored.kind = "null" THEN P
    ELSE IF P.stored.kind = "garbage" THEN [P EXCEPT !.threw = TRUE]
    ELSE IF P.stored.kind = "scalar" THEN P
    ELSE IF P.stored.count # Absent
    THEN [P EXCEPT !.count = P.stored.count, !.patched = TRUE]
    ELSE P

\* loadFromStorage: a throwing getItem or JSON.parse is caught; startBatch
\* and endBatch (in the finally block) enclose the mergePatch
loadFromStorage(P, fail) ==
    IF fail = "getItem" THEN P
    ELSE IF P.stored.kind = "null" THEN P
    ELSE IF P.stored.kind = "garbage" THEN P
    ELSE IF P.stored.kind = "scalar" THEN P
    ELSE LET P1 == [P EXCEPT !.batch = @ + 1]
             P2 == IF P.stored.count # Absent
                   THEN [P1 EXCEPT !.count = P.stored.count, !.patched = TRUE]
                   ELSE P1
         IN  [P2 EXCEPT !.batch = @ - 1]

\* saveToStorage: merges the data into the stored object and writes it; a
\* throwing getItem, JSON.parse or setItem is caught
saveToStorage(P, signalData, fail) ==
    LET P1 == [P EXCEPT !.attempts = @ + 1]
    IN  IF fail = "getItem" \/ P.stored.kind = "garbage" \/ fail = "setItem" THEN P1
        ELSE [P1 EXCEPT !.stored = Stored("object", signalData),
                        !.writes = @ + 1, !.written = signalData, !.pending = 0]

persistData(P, fail) ==
    IF P.cachedSignalData # Absent THEN saveToStorage(P, P.cachedSignalData, fail) ELSE P

\* a call of the function createDebounce(fn, delay) returns: the pending
\* call, if any, is dropped and fn is set to run once, delay from now
createDebounce(P, delay) == [P EXCEPT !.timer = delay]

\* throttleMs > 0 ? createDebounce(persistData, throttleMs) : persistData
throttledPersist(P, fail) ==
    IF P.throttleMs > 0 THEN createDebounce(P, P.throttleMs) ELSE persistData(P, fail)

\* the effect with persistData called in place of throttledPersist
effectUnthrottled(P, fail) ==
    persistData([P EXCEPT !.cachedSignalData = P.count], fail)

\* the effect callback: collect the signal's value, then throttledPersist()
effect(P, fail) ==
    throttledPersist([P EXCEPT !.cachedSignalData = P.count], fail)

\* persistAttributePlugin.onLoad; probe: the storage probe of getStorage
\* throws
persistOnLoad(P, probe, failLoad, failSave) ==
    IF probe THEN [P EXCEPT !.phase = "inert"]
    ELSE effect([loadFromStorage(P, failLoad) EXCEPT !.phase = "attached"], failSave)

IdlePersist == persist = NewPersist(Absent, Stored("null", Absent), 0)

----------------------------------------------------------------------------
(* Legacy AnchorPlugin (dist/anchor.js): class AutoUpdate and the plugin's  *)
(* apply / cleanup.  L is the plugin together with the window it runs in:  *)
(* the AutoUpdate objects created so far (an object's id is its index),    *)
(* the WeakMap autoUpdateInstances, the window's listeners, the connected  *)
(* observers, and each floating element's inline style.                    *)

Floating == {"tip", "menu"}

\* the document: one reference element, <button id="t">, 30x20 at (40, 50)
\* of the page
LegacyDocument == <<Element(Chars("t"), "button")>>

pageRect(reference) == Rect(40, 50, 30, 20)

\* the empty string stands for null as well: apply tests !targetSelector
evaluateExpression(value) ==
    IF Len(value) > 0 /\ value[1] = "'" /\ value[Len(value)] = "'"
    THEN SubSeq(value, 2, Len(value) - 1)
    ELSE IF Len(value) > 0 /\ value[1] = "$" THEN <<>>
    ELSE value

\* idx is the element found, 0 for null
findTargetElement(doc, selector) ==
    IF selector[1] = "#"
    THEN [threw |-> FALSE, idx |-> getElementById(doc, SubSeq(selector, 2, Len(selector)))]
    ELSE querySelector(doc, selector)

\* parseInt(part, 10) of a part of the key; Absent stands for NaN (a part
\* holds no '-', so parseInt never returns a negative number)
parseInt(part) ==
    CASE part = "0"  -> 0
      [] part = "10" -> 10
      [] part = "20" -> 20
      [] OTHER       -> Absent

\* the key is held as key.split('-'); a position is in the key when its
\* words are consecutive parts
positions ==
    <<<<"top", "start">>, <<"top", "end">>, <<"bottom", "start">>, <<"bottom", "end">>,
      <<"left", "start">>, <<"left", "end">>, <<"right", "start">>, <<"right", "end">>,
      <<"top">>, <<"bottom">>, <<"left">>, <<"right">>>>

keyIncludes(parts, position) ==
    \E i \in 1..Len(parts) :
        i + Len(position) - 1 <= Len(parts)
        /\ SubSeq(parts, i, i + Len(position) - 1) = position

parseModifiers(parts) ==
    LET found == {i \in 1..Len(positions) : keyIncludes(parts, positions[i])}
        position == positions[MinOf(found)]
        placement ==
            IF found = {} THEN "bottom"
            ELSE Suffixed(position[1],
                          IF Len(position) = 1 THEN ""
                          ELSE IF position[2] = "start" THEN "-start" ELSE "-end")
        at == {i \in 1..Len(parts) : parts[i] = "offset"}
        offsetIndex == MinOf(at)
        parsedOffset ==
            IF at # {} /\ offsetIndex + 1 <= Len(parts) /\ parts[offsetIndex + 1] # ""
            THEN parseInt(parts[offsetIndex + 1])
            ELSE Absent
    IN  [placement |-> placement,
         offsetValue |-> IF parsedOffset = Absent THEN 10 ELSE parsedOffset]

LegacyStyle(position, left, top, width, zIndex) ==
    [position |-> position, left |-> left, top |-> top, width |-> width,
     zIndex |-> zIndex]

prepareFloatingElement(L, element) ==
    [L EXCEPT !.style[element] = LegacyStyle("absolute", 0, 0, "max-content", "1000")]

\* every floating element is 20x10 once its width is max-content
positionElement(L, element, target, options) ==
    LET position ==
            computePosition(ScrolledRect(pageRect(target), <<0, L.scrollY>>),
                            [width |-> 20, height |-> 10],
                            options.placement, options.offsetValue,
                            [innerWidth |-> 120, innerHeight |-> L.innerHeight,
                             scrollX |-> 0, scrollY |-> L.scrollY])
    IN  [L EXCEPT !.style[element].left = position.x, !.style[element].top = position.y]

\* new AutoUpdate(reference, floating, updateCallback): the constructor runs
\* startUpdating, which registers everything and sets this.cleanup
AutoUpdate(L, reference, floating, options) ==
    LET id == Len(L.instances) + 1
    IN  [L EXCEPT
           !.instances = Append(@, [reference |-> reference, floating |-> floating,
                                    options |-> options, cleanup |-> TRUE]),
           !.windowListeners = @ \cup {[type |-> "scroll", id |-> id],
                                       [type |-> "resize", id |-> id]},
           !.resizeObservers =
               IF L.hasResizeObserver
               THEN @ \cup {[id |-> id, observed |-> <<reference, floating>>]}
               ELSE @,
           !.mutationObservers = IF L.hasMutationObserver THEN @ \cup {id} ELSE @]

\* AutoUpdate.destroy: runs this.cleanup once and forgets it
destroy(L, id) ==
    IF L.instances[id].cleanup
    THEN [L EXCEPT !.windowListeners = {l \in @ : l.id # id},
                   !.resizeObservers = {o \in @ : o.id # id},
                   !.mutationObservers = @ \ {id},
                   !.instances[id].cleanup = FALSE]
    ELSE L

\* AnchorPlugin.cleanup(element)
pluginCleanup(L, element) ==
    LET autoUpdate == L.autoUpdateInstances[element]
    IN  IF autoUpdate # Absent
        THEN [destroy(L, autoUpdate) EXCEPT !.autoUpdateInstances[element] = Absent]
        ELSE L

setupAutoUpdateNoCleanup(L, element, target, options) ==
    LET made == AutoUpdate(L, target, element, options)
    IN  [made EXCEPT !.autoUpdateInstances[element] = Len(made.instances)]

setupAutoUpdate(L, element, target, options) ==
    LET made == AutoUpdate(pluginCleanup(L, element), target, element, options)
    IN  [made EXCEPT !.autoUpdateInstances[element] = Len(made.instances)]

\* AnchorPlugin.apply(element, key, value); an error thrown by
\* querySelector is caught and logged
apply(L, element, key, value) ==
    LET options == parseModifiers(key)
        targetSelector == evaluateExpression(value)
        targetElement == findTargetElement(LegacyDocument, targetSelector)
    IN  IF targetSelector = <<>> THEN L
        ELSE IF targetElement.threw \/ targetElement.idx = 0 THEN L
        ELSE setupAutoUpdate(
                 positionElement(prepareFloatingElement(L, element), element,
                                 targetElement.idx, options),
                 element, targetElement.idx, options)

\* the update callbacks of the AutoUpdate objects `ids`, in the order the
\* objects were created
RECURSIVE runCallbacks(_, _)
runCallbacks(L, ids) ==
    IF ids = {} THEN L
    ELSE LET id == CHOOSE i \in ids : \A j \in ids : i <= j
             a  == L.instances[id]
         IN  runCallbacks(positionElement(L, a.floating, a.reference, a.options),
                          ids \ {id})

NoLegacyStyle == LegacyStyle("", 0, 0, "", "")

NewLegacy(hasResizeObserver, hasMutationObserver) ==
    [hasResizeObserver |-> hasResizeObserver, hasMutationObserver |-> hasMutationObserver,
     scrollY |-> 0, innerHeight |-> 90,
     instances |-> <<>>, autoUpdateInstances |-> [e \in Floating |-> Absent],
     windowListeners |-> {}, resizeObservers |-> {}, mutationObservers |-> {},
     style |-> [e \in Floating |-> NoLegacyStyle],
     calls |-> 0, last |-> [op |-> "none", element |-> "", id |-> Absent]]

IdleLegacy == legacy = NewLegacy(FALSE, FALSE)

IdleX == IdleDom /\ IdleLoader /\ IdlePersist /\ IdleLegacy

----------------------------------------------------------------------------
(* The margin-based draft of the anchor plugin (plugin-loader.ts 572-770): *)
(* getAnchorCSS with anchor() insets and margin-block / margin-inline, and *)
(* the simple fallback that writes an anchor point and a percentage        *)
(* translate, without flipping.                                            *)

\* a margin of `${offsetValue}${offsetUnit}`
Margin(offsetValue, offsetUnit) == [k |-> "len", value |-> offsetValue, unit |-> offsetUnit]
NoMargin == [k |-> "unset", value |-> Rat(0, 1), unit |-> ""]

MarginStyles(anchorName, top, bottom, left, right, marginBlock, marginInline) ==
    [position |-> "absolute", positionAnchor |-> anchorName,
     positionTryFallbacks |-> "flip-inline, flip-block",
     top |-> top, bottom |-> bottom, left |-> left, right |-> right,
     marginBlock |-> marginBlock, marginInline |-> marginInline]

getAnchorCSSMargin(anchorName, placement, offsetValue, offsetUnit) ==
    LET offset == Margin(offsetValue, offsetUnit)
        B(top, bottom, left, right) ==
            MarginStyles(anchorName, top, bottom, left, right, offset, NoMargin)
        I(top, bottom, left, right) ==
            MarginStyles(anchorName, top, bottom, left, right, NoMargin, offset)
    IN  CASE placement = "top"          -> B(Unset, Anchor("top"), Anchor("center"), Unset)
          [] placement = "top-start"    -> B(Unset, Anchor("top"), Anchor("left"), Unset)
          [] placement = "top-end"      -> B(Unset, Anchor("top"), Unset, Anchor("right"))
          [] placement = "bottom"       -> B(Anchor("bottom"), Unset, Anchor("center"), Unset)
          [] placement = "bottom-start" -> B(Anchor("bottom"), Unset, Anchor("left"), Unset)
          [] placement = "bottom-end"   -> B(Anchor("bottom"), Unset, Unset, Anchor("right"))
          [] placement = "left"         -> I(Anchor("center"), Unset, Unset, Anchor("left"))
          [] placement = "left-start"   -> I(Anchor("top"), Unset, Unset, Anchor("left"))
          [] placement = "left-end"     -> I(Unset, Anchor("bottom"), Unset, Anchor("left"))
          [] placement = "right"        -> I(Anchor("center"), Unset, Anchor("right"), Unset)
          [] placement = "right-start"  -> I(Anchor("top"), Unset, Anchor("right"), Unset)
          [] placement = "right-end"    -> I(Unset, Anchor("bottom"), Anchor("right"), Unset)
          [] OTHER                      -> I(Anchor("bottom"), Unset, Anchor("center"), Unset)

\* a margin as a length; a percentage margin is a percentage of the width
\* of the containing block, here the viewport
marginLength(m, e) ==
    IF m.k = "unset" THEN 0 ELSE ToUnits(cssLength(m.value, m.unit, e.W, e))

\* where the CSS engine puts the border box of an absolutely positioned
\* element with these declarations: its margin edge sits on the inset that
\* is set, and nothing translates it
cssLayoutMargin(styles, t, elr, e) ==
    LET mi == marginLength(styles.marginInline, e)
        mb == marginLength(styles.marginBlock, e)
    IN  [x |-> IF styles.left.k = "anchor"
               THEN anchorX(styles.left.side, t) + mi
               ELSE anchorX(styles.right.side, t) - mi - elr.width * U,
         y |-> IF styles.top.k = "anchor"
               THEN anchorY(styles.top.side, t) + mb
               ELSE anchorY(styles.bottom.side, t) - mb - elr.height * U]

simpleOffsetPx(offsetValue, offsetUnit, e) ==
    CASE offsetUnit = "rem" -> Rat(offsetValue.n * e.rootFont, offsetValue.d)
      [] offsetUnit = "em"  -> Rat(offsetValue.n * e.elFont, offsetValue.d)
      [] offsetUnit = "vw"  -> Rat(offsetValue.n * e.W, offsetValue.d * 100)
      [] offsetUnit = "vh"  -> Rat(offsetValue.n * e.H, offsetValue.d * 100)
      [] OTHER              -> offsetValue

\* the anchor point (x, y) and the translate of each placement
simplePoint(placement, targetRect, offsetPx) ==
    LET P(x, y, tx, ty) == [x |-> x, y |-> y, tx |-> tx, ty |-> ty]
        cx == targetRect.left * U + (targetRect.width * U) \div 2
        cy == targetRect.top * U + (targetRect.height * U) \div 2
        l  == targetRect.left * U
        r  == RectRight(targetRect) * U
        t  == targetRect.top * U
        b  == RectBottom(targetRect) * U
    IN  CASE placement = "top"          -> P(cx, t - offsetPx, Pct(-50), Pct(-100))
          [] placement = "top-start"    -> P(l, t - offsetPx, Zero, Pct(-100))
          [] placement = "top-end"      -> P(r, t - offsetPx, Pct(-100), Pct(-100))
          [] placement = "bottom"       -> P(cx, b + offsetPx, Pct(-50), Zero)
          [] placement = "bottom-start" -> P(l, b + offsetPx, Zero, Zero)
          [] placement = "bottom-end"   -> P(r, b + offsetPx, Pct(-100), Zero)
          [] placement = "left"         -> P(l - offsetPx, cy, Pct(-100), Pct(-50))
          [] placement = "left-start"   -> P(l - offsetPx, t, Pct(-100), Zero)
          [] placement = "left-end"     -> P(l - offsetPx, b, Pct(-100), Pct(-100))
          [] placement = "right"        -> P(r + offsetPx, cy, Zero, Pct(-50))
          [] placement = "right-start"  -> P(r + offsetPx, t, Zero, Zero)
          [] placement = "right-end"    -> P(r + offsetPx, b, Zero, Pct(-100))
          [] OTHER                      -> P(cx, b + offsetPx, Pct(-50), Zero)

\* updatePosition of the simple fallback
simpleUpdatePosition(elem, placement, offsetValue, offsetUnit, e) ==
    LET pt == simplePoint(placement, e.t, ToUnits(simpleOffsetPx(offsetValue, offsetUnit, e)))
    IN  [elem EXCEPT
           !.style.translate = [NoTranslate EXCEPT !.x = pt.tx, !.y = pt.ty],
           !.style.position = "absolute",
           !.style.left = Px(pt.x + e.sx * U),
           !.style.top = Px(pt.y + e.sy * U)]

\* where the element the simple fallback wrote appears in the viewport:
\* left and top are document coordinates, the translate is a percentage of
\* the element's own size
simpleLayout(elem, elr, e) ==
    [x |-> elem.style.left.v - e.sx * U
             + translateBy(elem.style.translate.x, elem.style.translate, elr.width, e),
     y |-> elem.style.top.v - e.sy * U
             + translateBy(elem.style.translate.y, elem.style.translate, elr.height, e)]

----------------------------------------------------------------------------
(* Geometry engine on literal rectangles: Init draws the inputs of one     *)
(* pass, each action applies one of the positioning functions to them.     *)

GridStep == 25
MaxGrid == 3

GridEnvs ==
    {Env(Rect(GridStep * i, GridStep * j, sz[1], sz[2]), 20, 10, vp[1], vp[2], sc[1], sc[2]) :
        i \in 0..MaxGrid, j \in 0..MaxGrid,
        sz \in {<<30, 20>>, <<21, 11>>},
        vp \in {<<120, 90>>, <<90, 120>>},
        sc \in {<<0, 0>>, <<3, 40>>}}

GridOffsets ==
    {<<0, "px">>, <<10, "px">>, <<1, "rem">>, <<1, "em">>, <<10, "%">>,
     <<10, "vw">>, <<50, "vw">>, <<10, "vh">>}

\* the example of the documentation: 100x30 reference at (100, 100),
\* floating 50x20, placement top, offset 10px
ExampleEnv == Env(Rect(100, 100, 100, 30), 50, 20, 400, 300, 0, 0)

GeomInput(p, o, e) ==
    [placement |-> p, offsetValue |-> Rat(o[1], 1), offsetUnit |-> o[2], e |-> e]

GeomInputs ==
    {GeomInput(p, o, e) : p \in Placements \cup {"diagonal"}, o \in GridOffsets, e \in GridEnvs}
    \cup {GeomInput(p, <<10, "px">>, ExampleEnv) : p \in Placements}

NoResult == [op |-> "none", x |-> 0, y |-> 0, placement |-> ""]

GeomOffsetPx == ToUnits(OffsetPx(gin.offsetValue, gin.offsetUnit, gin.e))

InitGeom ==
    /\ gin \in GeomInputs
    /\ gout = NoResult
    /\ IdleLife
    /\ IdleParse
    /\ IdleX

ApplyCalculatePosition ==
    LET pos == calculatePosition(gin.placement, gin.e.t, elRect(gin.e), GeomOffsetPx)
    IN  /\ gout' = [op |-> "calculatePosition", x |-> pos.x, y |-> pos.y,
                    placement |-> pos.placement]
        /\ UNCHANGED <<gin, lvars, pvars, xvars>>

ApplyUpdatePosition ==
    LET elr == updatePosition(NewElement, gin.placement, gin.offsetValue, gin.offsetUnit, gin.e)
    IN  /\ gout' = [op |-> "updatePosition", x |-> elr.style.left.v, y |-> elr.style.top.v,
                    placement |-> elr.actual]
        /\ UNCHANGED <<gin, lvars, pvars, xvars>>

ApplyGetAnchorCSS ==
    LET styles == getAnchorCSS("--anchor-t", gin.placement, gin.offsetValue, gin.offsetUnit)
        at     == cssLayout(styles, gin.e.t, elRect(gin.e), gin.e)
    IN  /\ gout' = [op |-> "getAnchorCSS", x |-> at.x, y |-> at.y, placement |-> gin.placement]
        /\ UNCHANGED <<gin, lvars, pvars, xvars>>

\* the legacy positioner takes its offset as a number of pixels
ApplyComputePositionBase ==
    /\ gin.offsetUnit = "px"
    /\ LET pos == computePositionBase(gin.placement, gin.e.t, elRect(gin.e),
                                      gin.offsetValue.n)
       IN  gout' = [op |-> "computePosition", x |-> pos.x, y |-> pos.y,
                    placement |-> pos.finalPlacement]
    /\ UNCHANGED <<gin, lvars, pvars, xvars>>

\* the page scrolled further before the legacy positioner runs, and the
\* floating element at its own size or as a 100x100 panel
LegacyScrolls == {<<0, 0>>, <<0, 60>>, <<60, 0>>}

LegacyFloatingRects(e) == {elRect(e), [width |-> 100, height |-> 100]}

Window(e, by) ==
    [innerWidth |-> e.W, innerHeight |-> e.H, scrollX |-> e.sx + by[1],
     scrollY |-> e.sy + by[2]]

\* the legacy positioner, flips and clamps included
ApplyComputePosition ==
    /\ gin.offsetUnit = "px"
    /\ \E by \in LegacyScrolls, floatingRect \in LegacyFloatingRects(gin.e) :
          LET refRect == ScrolledRect(gin.e.t, by)
              win     == Window(gin.e, by)
              pos     == computePosition(refRect, floatingRect, gin.placement,
                                         gin.offsetValue.n, win)
          IN  gout' = [op |-> "FloatingUICore.computePosition", x |-> pos.x, y |-> pos.y,
                       placement |-> gin.placement, refRect |-> refRect,
                       floatingRect |-> floatingRect, win |-> win]
    /\ UNCHANGED <<gin, lvars, pvars, xvars>>

\* the margin-based draft on a browser with anchor positioning
ApplyGetAnchorCSSMargin ==
    LET styles == getAnchorCSSMargin("--anchor-t", gin.placement, gin.offsetValue,
                                     gin.offsetUnit)
        at     == cssLayoutMargin(styles, gin.e.t, elRect(gin.e), gin.e)
    IN  /\ gout' = [op |-> "getAnchorCSSMargin", x |-> at.x, y |-> at.y,
                    placement |-> gin.placement]
        /\ UNCHANGED <<gin, lvars, pvars, xvars>>

\* the compiled draft on a browser with anchor positioning
ApplyGetAnchorCSSDist ==
    LET styles == getAnchorCSSDist("--anchor-t", gin.placement, gin.offsetValue,
                                   gin.offsetUnit)
        at     == cssLayout(styles, gin.e.t, elRect(gin.e), gin.e)
    IN  /\ gout' = [op |-> "getAnchorCSSDist", x |-> at.x, y |-> at.y,
                    placement |-> gin.placement]
        /\ UNCHANGED <<gin, lvars, pvars, xvars>>

\* the margin-based draft's fallback on a browser without it
ApplySimpleFallback ==
    LET elem == simpleUpdatePosition(NewElement, gin.placement, gin.offsetValue,
                                     gin.offsetUnit, gin.e)
        at   == simpleLayout(elem, elRect(gin.e), gin.e)
    IN  /\ gout' = [op |-> "simpleFallback", x |-> at.x, y |-> at.y,
                    placement |-> gin.placement]
        /\ UNCHANGED <<gin, lvars, pvars, xvars>>

NextGeom ==
    \/ ApplyCalculatePosition
    \/ ApplyUpdatePosition
    \/ ApplyGetAnchorCSS
    \/ ApplyComputePositionBase
    \/ ApplyGetAnchorCSSMargin
    \/ ApplySimpleFallback
    \/ ApplyGetAnchorCSSDist
    \/ ApplyComputePosition

SpecGeom == InitGeom /\ [][NextGeom]_vars

----------------------------------------------------------------------------
(* Lifecycle of one floating element: onLoad, the 50 ms timers, the        *)
(* window's scroll and resize events, layout changes of the page, and the  *)
(* cleanup function the host calls on removal.                             *)

MaxTimers == 2

TargetSpots == {<<40, 15>>, <<100, 60>>}
Viewports == {<<120, 90>>, <<200, 150>>}
Scrolls == {<<0, 0>>, <<0, 40>>}
LifeOffsets == {<<8, "px">>, <<1, "rem">>}

IdleGeom ==
    /\ gin = GeomInput("bottom", <<8, "px">>, ExampleEnv)
    /\ gout = NoResult

Init ==
    /\ cfg \in {Config(p, o, b) : p \in Placements, o \in LifeOffsets, b \in BOOLEAN}
    /\ env \in {Page(spot, vp, sc) : spot \in TargetSpots, vp \in Viewports, sc \in Scrolls}
    /\ el = NewElement
    /\ listeners = {}
    /\ timers = 0
    /\ hasFlipped = FALSE
    /\ phase = "new"
    /\ nFallback = 0
    /\ last = [op |-> "none", pass |-> FALSE]
    /\ first = NoPass
    /\ IdleGeom
    /\ IdleParse
    /\ IdleX

CurSt == St(el, listeners, timers, hasFlipped, nFallback)

\* the step's effect on the shared state, and the record of the first pass
Becomes(st, op, pass, v) ==
    /\ el' = st.el
    /\ listeners' = st.listeners
    /\ timers' = st.timers
    /\ hasFlipped' = st.hasFlipped
    /\ nFallback' = st.nFallback
    /\ last' = [op |-> op, pass |-> pass]
    /\ first' = IF pass /\ ~first.set
                THEN [set |-> TRUE, inputs |-> PageEnv(v), el |-> st.el]
                ELSE first

OnLoad ==
    /\ phase = "new"
    /\ phase' = "attached"
    /\ Becomes(onLoad(CurSt, cfg, PageEnv(env)), "onLoad", ~cfg.supports, env)
    /\ UNCHANGED <<cfg, env, gvars, pvars, xvars>>

TimerFire ==
    /\ timers > 0
    /\ LET st == checkForFlipping([CurSt EXCEPT !.timers = timers - 1], cfg, PageEnv(env))
       IN  Becomes(st, "timer", st.nFallback # nFallback, env)
    /\ UNCHANGED <<cfg, env, phase, gvars, pvars, xvars>>

Listens(type, fn) == \E l \in listeners : l.type = type /\ l.fn = fn

WindowResize ==
    /\ phase # "new"
    /\ (Listens("resize", "handleResize") /\ ~hasFlipped) => timers < MaxTimers
    /\ \E vp \in Viewports :
          /\ vp # <<env.W, env.H>>
          /\ env' = [env EXCEPT !.W = vp[1], !.H = vp[2]]
    /\ Becomes(dispatch("resize", CurSt, cfg, PageEnv(env')), "resize",
               Listens("resize", "handleUpdate"), env')
    /\ UNCHANGED <<cfg, phase, gvars, pvars, xvars>>

WindowScroll ==
    /\ phase # "new"
    /\ \E sc \in Scrolls :
          /\ sc # <<env.sx, env.sy>>
          /\ env' = [env EXCEPT !.sx = sc[1], !.sy = sc[2]]
    /\ Becomes(dispatch("scroll", CurSt, cfg, PageEnv(env')), "scroll",
               Listens("scroll", "handleUpdate"), env')
    /\ UNCHANGED <<cfg, phase, gvars, pvars, xvars>>

\* the target moves in the document (content above it grows or shrinks);
\* no scroll or resize event is fired
LayoutChange ==
    /\ phase # "new"
    /\ \E spot \in TargetSpots :
          /\ spot # <<env.dl, env.dt>>
          /\ env' = [env EXCEPT !.dl = spot[1], !.dt = spot[2]]
    /\ last' = [op |-> "layout", pass |-> FALSE]
    /\ UNCHANGED <<cfg, el, listeners, timers, hasFlipped, phase, nFallback, first, gvars, pvars, xvars>>

Cleanup ==
    /\ phase = "attached"
    /\ phase' = "detached"
    /\ Becomes(cleanup(CurSt, cfg), "cleanup", FALSE, env)
    /\ UNCHANGED <<cfg, env, gvars, pvars, xvars>>

Next ==
    \/ OnLoad
    \/ TimerFire
    \/ WindowResize
    \/ WindowScroll
    \/ LayoutChange
    \/ Cleanup

Spec == Init /\ [][Next]_vars

----------------------------------------------------------------------------
(* The documented placement rules, stated by side and alignment *)

SideOf(p) ==
    CASE p \in {"top", "top-start", "top-end"}          -> "top"
      [] p \in {"bottom", "bottom-start", "bottom-end"} -> "bottom"
      [] p \in {"left", "left-start", "left-end"}       -> "left"
      [] p \in {"right", "right-start", "right-end"}    -> "right"

AlignOf(p) ==
    CASE p \in {"top-start", "bottom-start", "left-start", "right-start"} -> "start"
      [] p \in {"top-end", "bottom-end", "left-end", "right-end"}         -> "end"
      [] OTHER                                                            -> "center"

Opposite(side) ==
    CASE side = "top" -> "bottom" [] side = "bottom" -> "top"
      [] side = "left" -> "right" [] side = "right" -> "left"

OtherAlign(a) == IF a = "start" THEN "end" ELSE "start"

Place(side, a) ==
    CHOOSE p \in Placements : SideOf(p) = side /\ AlignOf(p) = a

Vertical(p) == SideOf(p) \in {"top", "bottom"}

\* the floating rect on the named side at distance off, aligned on the cross axis
DocumentedPosition(p, t, elr, off) ==
    LET main == CASE SideOf(p) = "top"    -> t.top * U - elr.height * U - off
                  [] SideOf(p) = "bottom" -> (t.top + t.height) * U + off
                  [] SideOf(p) = "left"   -> t.left * U - elr.width * U - off
                  [] SideOf(p) = "right"  -> (t.left + t.width) * U + off
        lead == IF Vertical(p) THEN t.left ELSE t.top
        ext  == IF Vertical(p) THEN t.width ELSE t.height
        own  == IF Vertical(p) THEN elr.width ELSE elr.height
        cross == CASE AlignOf(p) = "center" -> lead * U + ((ext - own) * U) \div 2
                   [] AlignOf(p) = "start"  -> lead * U
                   [] AlignOf(p) = "end"    -> (lead + ext) * U - own * U
    IN  IF Vertical(p) THEN [x |-> cross, y |-> main] ELSE [x |-> main, y |-> cross]

\* requested placement first, then: the opposite side; for a centred
\* placement the two sides of the other axis, for an aligned one the other
\* alignment on the same side and then on the opposite side
DocumentedCandidates(p) ==
    IF AlignOf(p) = "center"
    THEN <<p, Opposite(SideOf(p))>> \o
         (IF Vertical(p) THEN <<"left", "right">> ELSE <<"top", "bottom">>)
    ELSE <<p, Place(Opposite(SideOf(p)), AlignOf(p)),
           Place(SideOf(p), OtherAlign(AlignOf(p))),
           Place(Opposite(SideOf(p)), OtherAlign(AlignOf(p)))>>

DocumentedFits(pos, e) ==
    /\ pos.x >= 10 * U
    /\ pos.x + e.fw * U <= (e.W - 10) * U
    /\ pos.y >= 10 * U
    /\ pos.y + e.fh * U <= (e.H - 10) * U

\* the candidates that fit, by their rank in the documented order
Fitting(p, e, off) ==
    LET cand == DocumentedCandidates(p)
    IN  {i \in 1..4 : DocumentedFits(DocumentedPosition(cand[i], e.t, elRect(e), off), e)}

Chosen(p, e, off) ==
    IF Fitting(p, e, off) = {} THEN p
    ELSE DocumentedCandidates(p)[MinOf(Fitting(p, e, off))]

GeomFitting == Fitting(gin.placement, gin.e, GeomOffsetPx)

GeomChosen == Chosen(gin.placement, gin.e, GeomOffsetPx)

\* C1: a pass of updatePosition uses the requested placement when it fits the
\* padded viewport, otherwise the first placement of the requested
\* placement's fallback list that fits, otherwise the requested placement
\* itself; the coordinates written are those of the placement used (plus
\* the scroll offset).
C1_FlipResolution ==
    (gout.op = "updatePosition" /\ gin.placement \in Placements) =>
        LET pos == DocumentedPosition(GeomChosen, gin.e.t, elRect(gin.e), GeomOffsetPx)
        IN  /\ gout.placement = GeomChosen
            /\ gout.x = pos.x + gin.e.sx * U
            /\ gout.y = pos.y + gin.e.sy * U

\* C1 witness: neither the requested placement nor the first two fallbacks
\* fit, and the pass ended on the third fallback
C1_Witness ==
    /\ gout.op = "updatePosition"
    /\ gin.placement \in Placements
    /\ GeomFitting # {}
    /\ MinOf(GeomFitting) = 4
    /\ gout.placement = DocumentedCandidates(gin.placement)[4]

\* C2: the unflipped position of calculatePosition, and the base position
\* of FloatingUICore.computePosition, is the floating rect on the named side
\* at distance offset, centred / start-aligned / end-aligned on the cross
\* axis; the documented example yields (125, 70).
C2_PlacementFormula ==
    /\ (gout.op \in {"calculatePosition", "computePosition"}
            /\ gin.placement \in Placements) =>
          LET pos == DocumentedPosition(gin.placement, gin.e.t, elRect(gin.e), GeomOffsetPx)
          IN  gout.x = pos.x /\ gout.y = pos.y /\ gout.placement = gin.placement
    /\ (gout.op \in {"calculatePosition", "computePosition"}
            /\ gin = GeomInput("top", <<10, "px">>, ExampleEnv)) =>
          (gout.x = 125 * U /\ gout.y = 70 * U)

\* C2 witness: calculatePosition applied to the documented example
C2_Witness ==
    /\ gin = GeomInput("top", <<10, "px">>, ExampleEnv)
    /\ gout.op = "calculatePosition"
    /\ gout.x = 125 * U
    /\ gout.y = 70 * U

GeomUnflipped == calculatePosition(gin.placement, gin.e.t, elRect(gin.e), GeomOffsetPx)

\* C3: for the 12 placements and every offset the declarations of
\* getAnchorCSS put the floating element's top-left corner where the
\* fallback's unflipped calculatePosition puts it.
C3_CssAgreesWithFallback ==
    (gout.op = "getAnchorCSS" /\ gin.placement \in Placements) =>
        (gout.x = GeomUnflipped.x /\ gout.y = GeomUnflipped.y)

\* the same agreement for every unit but the percentage
CssAgreesExceptPercent ==
    (gout.op = "getAnchorCSS" /\ gin.placement \in Placements /\ gin.offsetUnit # "%") =>
        (gout.x = GeomUnflipped.x /\ gout.y = GeomUnflipped.y)

----------------------------------------------------------------------------
(* The resolver on literal strings: Init draws a data-anchor value and the *)
(* element's two attributes; parseAnchorConfig resolves them, and the      *)
(* positioner converts the resolved offset on one of two pages.            *)

InitParse ==
    /\ pin \in ResolverInputs
    /\ pout = NotParsed
    /\ IdleGeom
    /\ IdleLife
    /\ IdleX

ParseAnchorConfig ==
    /\ pout.op = "none"
    /\ pout' = [pout EXCEPT !.op = "parsed", !.r = parseAnchorConfig(pin.attrs, pin.value)]
    /\ UNCHANGED <<pin, gvars, lvars, xvars>>

ConvertOffset ==
    /\ pout.op = "parsed"
    /\ \E e \in ConvEnvs :
          pout' = [pout EXCEPT !.op = "converted", !.e = e,
                     !.px = OffsetPx(pout.r.offsetValue, Text(pout.r.offsetUnit), e)]
    /\ UNCHANGED <<pin, gvars, lvars, xvars>>

NextParse ==
    \/ ParseAnchorConfig
    \/ ConvertOffset

SpecParse == InitParse /\ [][NextParse]_vars

----------------------------------------------------------------------------
(* Claims about the lifecycle *)

LifeOffsetPx == ToUnits(OffsetPx(cfg.offsetValue, cfg.offsetUnit, PageEnv(env)))

LifeChosen == Chosen(cfg.placement, PageEnv(env), LifeOffsetPx)

LifeChosenPos == DocumentedPosition(LifeChosen, PageEnv(env).t, elRect(PageEnv(env)), LifeOffsetPx)

\* the element carries what a pass over the current page writes
WrittenForCurrentPage ==
    /\ el.style.left = Px(LifeChosenPos.x + env.sx * U)
    /\ el.style.top = Px(LifeChosenPos.y + env.sy * U)
    /\ el.actual = LifeChosen

\* C4: on the fallback path, after the handler of a scroll or resize event
\* has run, left/top and data-actual-placement are the flip resolution of
\* the originally requested placement against the current target rectangle,
\* floating size and viewport, plus the current scroll offset.
C4_RecomputeFromRequested ==
    (last.op \in {"scroll", "resize"} /\ Listens(last.op, "handleUpdate"))
        => WrittenForCurrentPage

\* C4 witness: the first pass had to flip, and after a later scroll handler
\* the element is back on the requested placement
C4_Witness ==
    /\ last.op = "scroll"
    /\ Listens("scroll", "handleUpdate")
    /\ phase = "attached"
    /\ first.set
    /\ first.el.actual # cfg.placement
    /\ el.actual = cfg.placement

\* C5: once the cleanup function returned by onLoad has been called, no
\* scroll or resize listener registered for the element remains.
C5_NoListenerAfterCleanup ==
    phase = "detached" => listeners = {}

CssDeclared ==
    \/ el.style.positionAnchor # ""
    \/ \E s \in {el.style.top, el.style.bottom, el.style.left, el.style.right} : s.k = "anchor"

FallbackWritten ==
    \/ el.actual # ""
    \/ \E s \in {el.style.top, el.style.bottom, el.style.left, el.style.right} : s.k = "px"

FallbackListening == \E l \in listeners : l.fn = "handleUpdate"

Mode ==
    IF CssDeclared THEN "css"
    ELSE IF FallbackWritten \/ FallbackListening THEN "fallback" ELSE "none"

ExactlyOneMode ==
    /\ ~(CssDeclared /\ (FallbackWritten \/ FallbackListening))
    /\ phase # "new" => Mode \in {"css", "fallback"}
    /\ (phase # "new" /\ ~cfg.supports) => Mode = "fallback"
    /\ (phase # "new" /\ cfg.supports /\ ~hasFlipped) => Mode = "css"
    /\ nFallback <= 1

\* C6: the element is in exactly one mode (anchor declarations never
\* together with fallback coordinates or listeners), the initial mode is
\* the one supportsCSSAnchor selects, the only later transition is
\* CSS-native -> fallback, and applyFallbackPositioning runs at most once.
C6_ModeStateMachine ==
    /\ []ExactlyOneMode
    /\ [][ /\ (phase = "new" /\ phase' # "new") =>
                Mode' = (IF cfg.supports THEN "css" ELSE "fallback")
           /\ phase # "new" => (Mode' = Mode \/ (Mode = "css" /\ Mode' = "fallback"))
           /\ nFallback' # nFallback => (nFallback = 0 /\ nFallback' = 1) ]_vars

\* C6 witness: two timers were pending when the element switched from the
\* CSS-native mode to the fallback, and the second has fired since
C6_Witness ==
    /\ cfg.supports
    /\ hasFlipped
    /\ Mode = "fallback"
    /\ nFallback = 1
    /\ last.op = "timer"
    /\ ~last.pass

\* C7: a pass over the same target rectangle, floating size, viewport and
\* scroll offset as the element's first pass writes the same left, top and
\* placement, whatever the passes in between have written.
C7_PassIdempotent ==
    (last.pass /\ first.set /\ PageEnv(env) = first.inputs) =>
        /\ el.style.left = first.el.style.left
        /\ el.style.top = first.el.style.top
        /\ el.actual = first.el.actual

\* C7 witness: a scroll handler has just run a pass over the inputs of the
\* first pass (the scroll offset left them and came back), and both ended
\* on a flipped placement
C7_Witness ==
    /\ last.op = "scroll"
    /\ last.pass
    /\ first.set
    /\ PageEnv(env) = first.inputs
    /\ el.actual # cfg.placement

----------------------------------------------------------------------------
(* Claims about the resolver and the offset conversion *)

HasComma(s) == \E i \in 1..Len(s) : s[i] = ","

\* the comma form's fields by position: the text between the commas
PositionalFields == MapTrim(split(trim(stripQuotes(pin.value))))

\* the offset text the page author gave: the third field of the comma form,
\* or the data-anchor-offset attribute
GivenOffset ==
    IF HasComma(pin.value)
    THEN IF Len(PositionalFields) >= 3 THEN Attr(PositionalFields[3]) ELSE NullAttr
    ELSE pin.attrs.offset

GivenPlacement ==
    IF HasComma(pin.value)
    THEN IF Len(PositionalFields) >= 2 THEN Attr(PositionalFields[2]) ELSE NullAttr
    ELSE pin.attrs.placement

\* the comma form with a target and a placement in front of the offset, or
\* the attribute form
OffsetInPlace ==
    HasComma(pin.value) =>
        (Len(PositionalFields[1]) > 0 /\ Len(PositionalFields[2]) > 0)

IsDecimal(s) ==
    \/ (Len(s) >= 1 /\ \A i \in 1..Len(s) : IsDigit(s[i]))
    \/ \E dot \in 2..(Len(s) - 1) :
          /\ s[dot] = "."
          /\ \A i \in (1..Len(s)) \ {dot} : IsDigit(s[i])

\* a non-negative decimal number followed by an optional unit of the six
WellFormedOffset(s) ==
    \E i \in 1..Len(s), j \in 1..Len(s) :
        /\ i <= j
        /\ IsDecimal(SubSeq(s, 1, i))
        /\ \A k \in (i + 1)..j : IsSpace(s[k])
        /\ SubSeq(s, j + 1, Len(s)) \in {<<>>} \cup {Chars(u) : u \in Units}

GivenOffsetIs(s) == ~GivenOffset.null /\ GivenOffset.s = s /\ OffsetInPlace

\* C8: the pixel value of a parsed offset (v, u) is v for px, v times the
\* root font-size for rem, v times the element's font-size for em, v percent
\* of the viewport width for vw and of its height for vh, and v for %; a
\* bare number is read as px; 1rem is the root font-size and 50vw is half
\* the viewport width.
C8_OffsetToPixels ==
    pout.op = "converted" =>
        LET v == pout.r.offsetValue
            u == pout.r.offsetUnit
            e == pout.e
        IN  /\ u = Chars("px")  => RatEq(pout.px, v)
            /\ u = Chars("rem") => RatEq(pout.px, Rat(v.n * e.rootFont, v.d))
            /\ u = Chars("em")  => RatEq(pout.px, Rat(v.n * e.elFont, v.d))
            /\ u = Chars("vw")  => RatEq(pout.px, Rat(v.n * e.W, v.d * 100))
            /\ u = Chars("vh")  => RatEq(pout.px, Rat(v.n * e.H, v.d * 100))
            /\ u = Chars("%")   => RatEq(pout.px, v)
            /\ GivenOffsetIs(<<"1", "5">>) => (u = Chars("px") /\ RatEq(pout.px, Rat(15, 1)))
            /\ GivenOffsetIs(<<"1", ".", "5">>) => (u = Chars("px") /\ RatEq(pout.px, Rat(3, 2)))
            /\ GivenOffsetIs(<<"1">> \o Chars("rem")) => RatEq(pout.px, Rat(e.rootFont, 1))
            /\ GivenOffsetIs(<<"5", "0">> \o Chars("vw")) => RatEq(pout.px, Rat(e.W, 2))

\* C8 witness: 50vw converted on the 120px wide page gives 60px
C8_Witness ==
    /\ pout.op = "converted"
    /\ GivenOffsetIs(<<"5", "0">> \o Chars("vw"))
    /\ pout.e.W = 120
    /\ RatEq(pout.px, Rat(60, 1))

ResolvedDefaultOffset ==
    RatEq(pout.r.offsetValue, Rat(8, 1)) /\ pout.r.offsetUnit = Chars("px")

\* C9: an offset text that is not a non-negative decimal number followed by
\* an optional unit of px, rem, em, %, vw, vh resolves to 8px, in the third
\* field of the comma form and in the data-anchor-offset attribute.
C9_MalformedOffsetDefaults ==
    (pout.op = "parsed" /\ ~GivenOffset.null /\ ~WellFormedOffset(GivenOffset.s))
        => ResolvedDefaultOffset

\* what the pattern of the code rejects does resolve to 8px
RejectedOffsetDefaults ==
    (pout.op = "parsed" /\ ~GivenOffset.null /\ OffsetInPlace
        /\ ~offsetMatch(GivenOffset.s).ok) => ResolvedDefaultOffset

\* C10: the resolved placement is one of the 12 values: the given one when
\* it is one of them, bottom otherwise.
C10_PlacementIsEnum ==
    pout.op = "parsed" =>
        /\ Text(pout.r.placement) \in Placements
        /\ (~GivenPlacement.null /\ Text(GivenPlacement.s) \in Placements /\ OffsetInPlace)
              => pout.r.placement = GivenPlacement.s

----------------------------------------------------------------------------
(* C11: resolver precedence *)

\* the attribute values a comma-form element may also carry
OtherAttrs ==
    {Attrs(pin.value, pa, oa) :
        pa \in {NullAttr, Attr(<<>>), Attr(Chars("left")), Attr(Chars("diagonal"))},
        oa \in {NullAttr, Attr(<<"5">> \o Chars("rem")), Attr(<<"1">> \o Chars("cm")),
                Attr(Chars("px"))}}

\* C11: when the data-anchor value contains a comma, the resolved target,
\* placement and offset are the same for every combination of the
\* data-anchor-placement and data-anchor-offset attributes: a field the
\* value leaves out takes its default, not the attribute.
C11_CommaFormWins ==
    (pout.op = "parsed" /\ HasComma(pin.value)) =>
        /\ \A a \in OtherAttrs : parseAnchorConfig(a, pin.value) = pout.r
        /\ (GivenPlacement.null /\ Len(PositionalFields[1]) > 0)
              => pout.r.placement = Chars("bottom")
        /\ (GivenOffset.null /\ OffsetInPlace) => ResolvedDefaultOffset

\* C11 witness: a comma form without placement and offset on an element that
\* carries both attributes resolves to the defaults
C11_Witness ==
    /\ pout.op = "parsed"
    /\ HasComma(pin.value)
    /\ pin.attrs.placement = Attr(Chars("left"))
    /\ pin.attrs.offset = Attr(<<"5">> \o Chars("rem"))
    /\ pout.r.target = Chars("#t")
    /\ pout.r.placement = Chars("bottom")
    /\ ResolvedDefaultOffset

----------------------------------------------------------------------------
(* C27: the comma form is positional *)

\* the field at position k of the comma form, empty when it is left out
Field(k) == IF Len(PositionalFields) >= k THEN PositionalFields[k] ELSE <<>>

\* what the offset field resolves to when it is read by itself
FieldOffset(s) ==
    LET m == offsetMatch(s)
    IN  IF s # <<>> /\ m.ok
        THEN [offsetValue |-> parseFloat(m), offsetUnit |-> OrElse(m.unit, Chars("px"))]
        ELSE [offsetValue |-> Rat(8, 1), offsetUnit |-> Chars("px")]

\* C27: in the comma form the target is the text before the first comma,
\* the placement the text between the first and the second comma, the
\* offset the text after the second; an empty field takes its default
\* (empty target, bottom, 8px) and the later fields keep their place.
C27_CommaFormPositional ==
    (pout.op = "parsed" /\ HasComma(pin.value)) =>
        /\ pout.r.target = Field(1)
        /\ pout.r.placement = OrElse(Field(2), Chars("bottom"))
        /\ pout.r.offsetValue = FieldOffset(Field(3)).offsetValue
        /\ pout.r.offsetUnit = FieldOffset(Field(3)).offsetUnit

\* when no field in front of a given field is empty the fields are read by
\* position
FilledFieldsArePositional ==
    (/\ pout.op = "parsed"
     /\ HasComma(pin.value)
     /\ \A k \in 1..(Len(PositionalFields) - 1) : PositionalFields[k] # <<>>)
        => /\ pout.r.target = Field(1)
           /\ pout.r.placement = OrElse(Field(2), Chars("bottom"))
           /\ pout.r.offsetValue = FieldOffset(Field(3)).offsetValue
           /\ pout.r.offsetUnit = FieldOffset(Field(3)).offsetUnit

\* ', top, 5px' resolves to the target 'top' and the placement '5px'
EmptyTargetShifts ==
    /\ pout.op = "parsed"
    /\ pin.value = CommaValue(<<>>, Chars("top"), Chars("5px"))
    /\ pout.r.target = Chars("top")
    /\ pout.r.placement = Chars("5px")
    /\ pout.r.offsetValue = Rat(8, 1)

----------------------------------------------------------------------------
(* C19: detach cancels everything *)

\* C19: once the cleanup function returned by onLoad has been called, no
\* step writes to the element (position, left, top, data-actual-placement)
\* and no step registers a listener for it, whether the step is a timer
\* scheduled before the detach or a window event.
C19_DetachCancels ==
    [][phase = "detached" => (el' = el /\ listeners' \subseteq listeners)]_vars

\* on the fallback path, where onLoad returns applyFallbackPositioning's own
\* detach function, nothing acts after the detach
FallbackDetachCancels ==
    [][(phase = "detached" /\ ~cfg.supports)
          => (el' = el /\ listeners' \subseteq listeners)]_vars

\* a timer scheduled before the detach fires after it and moves the element
\* to the fallback
TimerActsAfterDetach ==
    /\ phase = "detached"
    /\ last.op = "timer"
    /\ last.pass

----------------------------------------------------------------------------
(* C20: the margin-based draft's CSS path and its simple fallback *)

\* the viewport corner the simple fallback gives the inputs of this pass
SimpleCorner ==
    simpleLayout(simpleUpdatePosition(NewElement, gin.placement, gin.offsetValue,
                                      gin.offsetUnit, gin.e),
                 elRect(gin.e), gin.e)

\* the floating element's centre is the target's centre along the cross axis
CentredOn(at) ==
    /\ SideOf(gin.placement) \in {"top", "bottom"}
          => 2 * at.x + gin.e.fw * U = 2 * gin.e.t.left * U + gin.e.t.width * U
    /\ SideOf(gin.placement) \in {"left", "right"}
          => 2 * at.y + gin.e.fh * U = 2 * gin.e.t.top * U + gin.e.t.height * U

CentredPlacements == {"top", "bottom", "left", "right"}

\* C20: for each of the twelve placements, every offset, reference rectangle
\* and floating size, the declarations of the margin-based getAnchorCSS put
\* the floating element's top-left corner where the simple fallback puts
\* it, and a centred placement (top, bottom, left, right) is centred on the
\* target on both paths.
C20_MarginDraftAgrees ==
    (gout.op = "getAnchorCSSMargin" /\ gin.placement \in Placements)
        => /\ gout.x = SimpleCorner.x
           /\ gout.y = SimpleCorner.y
           /\ gin.placement \in CentredPlacements => CentredOn(gout)

\* the start- and end-aligned placements agree for every unit the fallback
\* converts
AlignedPlacementsAgree ==
    (/\ gout.op = "getAnchorCSSMargin"
     /\ gin.placement \in Placements \ CentredPlacements
     /\ gin.offsetUnit # "%")
        => (gout.x = SimpleCorner.x /\ gout.y = SimpleCorner.y)

\* the simple fallback centres the centred placements
SimpleFallbackCentres ==
    (gout.op = "simpleFallback" /\ gin.placement \in CentredPlacements)
        => CentredOn(gout)

\* the documentation's example on the CSS path: the floating element's left
\* edge, not its centre, is at the target's centre
MarginDraftOffCentre ==
    /\ gout.op = "getAnchorCSSMargin"
    /\ gin = GeomInput("top", <<10, "px">>, ExampleEnv)
    /\ gout.x = 150 * U /\ gout.y = 70 * U
    /\ SimpleCorner.x = 125 * U /\ SimpleCorner.y = 70 * U

----------------------------------------------------------------------------
(* C28: a placement that is not one of the twelve values gets, in every    *)
(* draft of getAnchorCSS, exactly the declarations of placement "bottom":  *)
(* the same properties with the same values.                               *)

UnknownPlacement == gin.placement \notin Placements

BottomCSS(draft) ==
    CASE draft = "getAnchorCSS" ->
           getAnchorCSS("--anchor-t", "bottom", gin.offsetValue, gin.offsetUnit)
      [] draft = "getAnchorCSSMargin" ->
           getAnchorCSSMargin("--anchor-t", "bottom", gin.offsetValue, gin.offsetUnit)
      [] draft = "getAnchorCSSDist" ->
           getAnchorCSSDist("--anchor-t", "bottom", gin.offsetValue, gin.offsetUnit)

UnknownCSS(draft) ==
    CASE draft = "getAnchorCSS" ->
           getAnchorCSS("--anchor-t", gin.placement, gin.offsetValue, gin.offsetUnit)
      [] draft = "getAnchorCSSMargin" ->
           getAnchorCSSMargin("--anchor-t", gin.placement, gin.offsetValue,
                              gin.offsetUnit)
      [] draft = "getAnchorCSSDist" ->
           getAnchorCSSDist("--anchor-t", gin.placement, gin.offsetValue,
                            gin.offsetUnit)

Drafts == {"getAnchorCSS", "getAnchorCSSMargin", "getAnchorCSSDist"}

\* C28: whichever draft has just computed the declarations of a placement
\* outside the twelve values, they are the declarations it computes for
\* "bottom" with the same anchor name and offset
C28_UnknownPlacementAsBottom ==
    (UnknownPlacement /\ gout.op \in Drafts) => UnknownCSS(gout.op) = BottomCSS(gout.op)

\* what does hold: the translate-based draft of the source treats an unknown
\* placement as "bottom", and so does the compiled draft apart from its
\* position-try-options
TranslateDraftDefaultIsBottom ==
    (UnknownPlacement /\ gout.op \in {"getAnchorCSS", "getAnchorCSSDist"}) =>
        /\ UnknownCSS("getAnchorCSS") = BottomCSS("getAnchorCSS")
        /\ [UnknownCSS("getAnchorCSSDist") EXCEPT !.positionTryOptions = <<>>]
             = [BottomCSS("getAnchorCSSDist") EXCEPT !.positionTryOptions = <<>>]

\* the margin-based draft puts the offset of an unknown placement on the
\* inline axis and that of "bottom" on the block axis
MarginDraftUnknownIsInline ==
    /\ UnknownPlacement
    /\ gout.op = "getAnchorCSSMargin"
    /\ UnknownCSS(gout.op).marginInline = Margin(gin.offsetValue, gin.offsetUnit)
    /\ UnknownCSS(gout.op).marginBlock = NoMargin
    /\ BottomCSS(gout.op).marginBlock = Margin(gin.offsetValue, gin.offsetUnit)
    /\ BottomCSS(gout.op).marginInline = NoMargin

\* the compiled draft lets an unknown placement try "bottom" first, which the
\* placement "bottom" itself does not
CompiledDraftTriesBottom ==
    /\ UnknownPlacement
    /\ gout.op = "getAnchorCSSDist"
    /\ UnknownCSS(gout.op).positionTryOptions
         = <<<<"flip-", "bottom">>>> \o BottomCSS(gout.op).positionTryOptions

----------------------------------------------------------------------------
(* C30: edge flipping of the legacy positioner                             *)

Positioned == gout.op = "FloatingUICore.computePosition"

\* the base position of the pass that ran last and what it returned, less
\* the scroll offset
LegacyBase ==
    computePositionBase(gin.placement, gout.refRect, gout.floatingRect, gin.offsetValue.n)

LegacyX == gout.x - gout.win.scrollX * U
LegacyY == gout.y - gout.win.scrollY * U
LegacySide == SideOf(LegacyBase.finalPlacement)

OffLeft   == LegacyBase.x < edgePadding * U
OffRight  == LegacyBase.x + gout.floatingRect.width * U
                > (gout.win.innerWidth - edgePadding) * U
OffTop    == LegacyBase.y < edgePadding * U
OffBottom == LegacyBase.y + gout.floatingRect.height * U
                > (gout.win.innerHeight - edgePadding) * U

FlippedToBottom == LegacyY = (RectBottom(gout.refRect) + gin.offsetValue.n) * U
FlippedToTop ==
    LegacyY = (gout.refRect.top - gout.floatingRect.height - gin.offsetValue.n) * U
FlippedToRight == LegacyX = (RectRight(gout.refRect) + gin.offsetValue.n) * U
FlippedToLeft ==
    LegacyX = (gout.refRect.left - gout.floatingRect.width - gin.offsetValue.n) * U

ClampedLeft   == LegacyX = edgePadding * U
ClampedRight  ==
    LegacyX = (gout.win.innerWidth - gout.floatingRect.width - edgePadding) * U
ClampedTop    == LegacyY = edgePadding * U
ClampedBottom ==
    LegacyY = (gout.win.innerHeight - gout.floatingRect.height - edgePadding) * U

BottomOffBothEdges ==
    /\ Positioned
    /\ LegacySide = "bottom" /\ OffBottom /\ OffTop
    /\ ClampedTop /\ ~FlippedToTop

RightOffBothEdges ==
    /\ Positioned
    /\ LegacySide = "right" /\ OffRight /\ OffLeft
    /\ ClampedLeft /\ ~FlippedToLeft

TopFlippedToBottom == Positioned /\ LegacySide = "top" /\ OffTop /\ FlippedToBottom
LeftFlippedToRight == Positioned /\ LegacySide = "left" /\ OffLeft /\ FlippedToRight
RightFlippedToLeft ==
    Positioned /\ LegacySide = "right" /\ OffRight /\ ~OffLeft /\ FlippedToLeft

----------------------------------------------------------------------------
(* Target lookup: onLoad is called for one floating element after another  *)
(* on a document of two elements, while Date.now() advances.               *)

MaxLoads == 2
MaxClock == 1

DocIds == {<<>>, Chars("t"), Chars("my-button"), Chars("nav.item"), Chars("nav-item")}

\* a button and a div; ids are unique where present
Docs ==
    {<<Element(ids[1], "button"), Element(ids[2], "div")>> :
        ids \in {x \in DocIds \X DocIds : x[2] = <<>> \/ x[2] # x[1]}}

Targets ==
    {<<>>, Chars("#t"), Chars("t"), Chars("#my-button"), Chars("my-button"),
     Chars("#missing"), Chars("#nav.item"), Chars("#nav-item"), Chars("button"),
     Chars("div"), Chars(">>"), <<"#">>}

\* data-anchor="target" with the two attributes, and
\* data-anchor="'target, top, 5px'"
LookupInputs ==
    {ResolverInput(t, Attr(Chars("top")), Attr(Chars("5px"))) : t \in Targets}
    \cup {ResolverInput(Quoted(TRUE, CommaValue(t, Chars("top"), Chars("5px"))),
                        NullAttr, NullAttr) : t \in Targets \ {<<>>}}
    \cup {ResolverInput(<<",">>, NullAttr, NullAttr)}

InitDom ==
    /\ dom \in {[doc |-> d, now |-> 0, supports |-> b, calls |-> 0,
                 look |-> NotLoaded, input |-> ResolverInput(<<>>, NullAttr, NullAttr)] :
                    d \in Docs, b \in BOOLEAN}
    /\ IdleLoader
    /\ IdlePersist
    /\ IdleLegacy
    /\ IdleGeom
    /\ IdleLife
    /\ IdleParse

\* the host calls onLoad for the next floating element
OnLoadCall ==
    /\ dom.calls < MaxLoads
    /\ \E inp \in LookupInputs :
          dom' = [onLoadFrom(dom, inp.value, inp.attrs, dom.supports)
                    EXCEPT !.calls = dom.calls + 1, !.input = inp]
    /\ UNCHANGED <<gvars, lvars, pvars, loader, persist, legacy>>

\* a millisecond passes
Tick ==
    /\ dom.now < MaxClock
    /\ dom' = [dom EXCEPT !.now = dom.now + 1]
    /\ UNCHANGED <<gvars, lvars, pvars, loader, persist, legacy>>

NextDom ==
    \/ OnLoadCall
    \/ Tick

SpecDom == InitDom /\ [][NextDom]_vars

\* a step that is a call of onLoad
IsOnLoadCall == dom'.calls = dom.calls + 1

----------------------------------------------------------------------------
(* C12: empty target *)

\* C12: a call of onLoad whose resolved target string is empty returns
\* without throwing and changes nothing: no style or attribute on the
\* floating element, no id or anchor-name on any element of the document,
\* no listener and no timer.
C12_EmptyTargetNoop ==
    [][(IsOnLoadCall /\ dom'.look.target = <<>>) =>
          /\ dom'.look.outcome = "noTarget"
          /\ dom'.look.st = NewSt
          /\ dom'.doc = dom.doc]_vars

\* C12 witness: on a page where an earlier onLoad attached an element, a
\* call with an empty target has returned
C12_Witness ==
    /\ dom.calls = 2
    /\ dom.look.outcome = "noTarget"
    /\ dom.look.st = NewSt
    /\ \E i \in 1..Len(dom.doc) : dom.doc[i].anchorName # <<>>

----------------------------------------------------------------------------
(* C13: unresolvable target *)

\* the resolved target names no element of the document: no element has the
\* id after '#', no element has the tag name, or the string is no selector
NamesNoElement(doc, target) ==
    IF target[1] = "#"
    THEN \A i \in 1..Len(doc) : Tail(target) = <<>> \/ doc[i].id # Tail(target)
    ELSE \A i \in 1..Len(doc) : Chars(doc[i].tag) # target

\* C13: a call of onLoad whose non-empty target names no element of the
\* document, or is not a valid selector, becomes a no-op: no exception
\* reaches the caller, nothing is written to the floating element or to the
\* document, no listener and no timer is registered.
C13_UnresolvedTargetNoop ==
    [][(IsOnLoadCall /\ dom'.look.target # <<>> /\ NamesNoElement(dom.doc, dom'.look.target)) =>
          /\ dom'.look.outcome = "notFound"
          /\ dom'.look.st = NewSt
          /\ dom'.doc = dom.doc]_vars

\* for targets that are '#id' or a valid selector the lookup does end in a
\* no-op
ValidUnresolvedTargetNoop ==
    [][(IsOnLoadCall /\ dom'.look.target # <<>> /\ NamesNoElement(dom.doc, dom'.look.target)
          /\ (dom'.look.target[1] = "#" \/ IsTypeSelector(dom'.look.target))) =>
          /\ dom'.look.outcome = "notFound"
          /\ dom'.look.st = NewSt
          /\ dom'.doc = dom.doc]_vars

----------------------------------------------------------------------------
(* C14: bare id in the attribute-based syntax *)

\* the data-anchor value of the last call, unquoted
GivenTarget == trim(stripQuotes(dom.input.value))

\* the comma form '#id, placement, offset' of the attribute form of the last
\* call
AsCommaForm ==
    Quoted(TRUE, CommaValue(<<"#">> \o GivenTarget, dom.input.attrs.placement.s,
                            dom.input.attrs.offset.s))

\* C14: in the attribute-based syntax a bare element id (no leading '#') is
\* resolved to the element with that id, and the floating element is
\* positioned as by the comma form '#id, placement, offset'.
C14_BareIdTarget ==
    (/\ dom.look.outcome # "none"
     /\ ~HasComma(dom.input.value)
     /\ GivenTarget # <<>>
     /\ GivenTarget[1] # "#"
     /\ \E i \in 1..Len(dom.doc) : dom.doc[i].id = GivenTarget)
    =>
    (/\ dom.look.outcome = "attached"
     /\ dom.doc[dom.look.idx].id = GivenTarget
     /\ dom.look.st = onLoadFrom(dom, AsCommaForm, Attrs(AsCommaForm, NullAttr, NullAttr),
                                 dom.supports).look.st)

\* with a leading '#' the attribute form and the comma form agree
HashIdTarget ==
    (/\ dom.look.outcome # "none"
     /\ ~HasComma(dom.input.value)
     /\ Len(GivenTarget) > 1
     /\ GivenTarget[1] = "#"
     /\ \E i \in 1..Len(dom.doc) : dom.doc[i].id = Tail(GivenTarget))
    =>
    (/\ dom.look.outcome = "attached"
     /\ dom.doc[dom.look.idx].id = Tail(GivenTarget)
     /\ LET comma == Quoted(TRUE, CommaValue(GivenTarget, dom.input.attrs.placement.s,
                                            dom.input.attrs.offset.s))
        IN  dom.look.st = onLoadFrom(dom, comma, Attrs(comma, NullAttr, NullAttr),
                                     dom.supports).look.st)

----------------------------------------------------------------------------
(* C15: anchor identifiers *)

\* C15: the anchor name of a target is a function of its id alone, two
\* distinct elements of the document never carry the same anchor name, and
\* no two elements carry the same id once onLoad has generated ids.
C15_AnchorNamesUnique ==
    \A i, j \in 1..Len(dom.doc) :
        /\ dom.doc[i].anchorName # <<>> => dom.doc[i].anchorName = generateAnchorName(dom.doc[i].id)
        /\ (i # j /\ dom.doc[i].anchorName # <<>>) => dom.doc[i].anchorName # dom.doc[j].anchorName
        /\ (i # j /\ dom.doc[i].id # <<>>) => dom.doc[i].id # dom.doc[j].id

\* two targets whose ids differ only in a character outside [a-zA-Z0-9]
\* carry one anchor name
SameNameForTwoIds ==
    /\ dom.doc[1].id = Chars("nav.item")
    /\ dom.doc[2].id = Chars("nav-item")
    /\ dom.doc[1].anchorName = dom.doc[2].anchorName
    /\ dom.doc[1].anchorName # <<>>

\* two targets without id, attached in the same millisecond, carry one id
SameGeneratedId ==
    /\ dom.doc[1].id = dom.doc[2].id
    /\ dom.doc[1].id # <<>>

----------------------------------------------------------------------------
(* Plugin loader: callers call loadPlugin, unloadPlugin and updateRegistry *)
(* while earlier loads are at their awaits; a fetch succeeds or fails      *)
(* (network error, timeout).                                               *)

\* calls of loadPlugin, unloadPlugin and updateRegistry together
MaxCalls == 3

\* name, options.version, options.fallback
CallInputs ==
    {<<"anchor", 0, FALSE>>, <<"anchor", 0, TRUE>>, <<"anchor", 2, FALSE>>,
     <<"tooltip", 0, FALSE>>, <<"modal", 0, FALSE>>}

Only(name, info) == [n \in PluginNames |-> IF n = name THEN info ELSE NoInfo]

\* a plugin that lists itself, a cycle with tooltip, a second version, and
\* a plugin with two dependencies
RegistryUpdates ==
    {Only("anchor", PluginInfo(1, Version(<<"anchor">>), NoVersion)),
     Only("anchor", PluginInfo(1, Version(<<"tooltip">>), NoVersion)),
     Only("anchor", PluginInfo(2, Version(<<>>), Version(<<>>))),
     Only("modal", PluginInfo(1, Version(<<"anchor", "tooltip">>), NoVersion))}

InitLoader ==
    /\ loader = NewLoader
    /\ IdleDom
    /\ IdlePersist
    /\ IdleLegacy
    /\ IdleGeom
    /\ IdleLife
    /\ IdleParse

LoadPlugin ==
    /\ loader.calls < MaxCalls
    /\ \E inp \in CallInputs :
          loader' = [callLoadPlugin(loader, inp[1], Options(inp[2], inp[3]))
                        EXCEPT !.calls = loader.calls + 1]
    /\ UNCHANGED <<gvars, lvars, pvars, dom, persist, legacy>>

UnloadPlugin ==
    /\ loader.calls < MaxCalls
    /\ \E name \in {"anchor", "tooltip"} :
          loader' = [unloadPlugin(loader, name) EXCEPT !.calls = loader.calls + 1,
                                                       !.unloads = loader.unloads + 1]
    /\ UNCHANGED <<gvars, lvars, pvars, dom, persist, legacy>>

UpdateRegistry ==
    /\ loader.calls < MaxCalls
    /\ \E newRegistry \in RegistryUpdates :
          loader' = [updateRegistry(loader, newRegistry) EXCEPT !.calls = loader.calls + 1]
    /\ UNCHANGED <<gvars, lvars, pvars, dom, persist, legacy>>

\* Promise.all of the dependencies' promises rejects with the first
\* rejection and resolves when all have resolved
DependenciesSettle ==
    /\ \E i \in 1..Len(loader.loads) :
          /\ loader.loads[i].pc = "deps"
          /\ LET a == loader.loads[i].awaits
             IN  \/ /\ \E j \in a : loader.loads[j].pc = "failed"
                    /\ loader' = afterDependencies(loader, i, FALSE)
                 \/ /\ \A j \in a : loader.loads[j].pc = "done"
                    /\ loader' = afterDependencies(loader, i, TRUE)
    /\ UNCHANGED <<gvars, lvars, pvars, dom, persist, legacy>>

FetchSettles ==
    /\ \E i \in 1..Len(loader.loads), ok \in BOOLEAN :
          /\ loader.loads[i].pc = "fetch"
          /\ loader' = afterFetch(loader, i, ok)
    /\ UNCHANGED <<gvars, lvars, pvars, dom, persist, legacy>>

FallbackSettles ==
    /\ \E i \in 1..Len(loader.loads), ok \in BOOLEAN :
          /\ loader.loads[i].pc = "fallback"
          /\ loader' = afterFallback(loader, i, ok)
    /\ UNCHANGED <<gvars, lvars, pvars, dom, persist, legacy>>

LoadReturns ==
    /\ \E i \in 1..Len(loader.loads) :
          /\ loader.loads[i].pc \in {"done", "failed"}
          /\ ~loader.loads[i].cleared
          /\ loader' = afterLoad(loader, i)
    /\ UNCHANGED <<gvars, lvars, pvars, dom, persist, legacy>>

NextLoader ==
    \/ LoadPlugin
    \/ UnloadPlugin
    \/ UpdateRegistry
    \/ DependenciesSettle
    \/ FetchSettles
    \/ FallbackSettles
    \/ LoadReturns

SpecLoader == InitLoader /\ [][NextLoader]_vars

----------------------------------------------------------------------------
(* C16: plugin loader caching *)

\* the plugin objects the callers of loadPlugin(n) have received
received(n) ==
    {loader.callers[c].plugin : c \in {d \in 1..Len(loader.callers) :
        loader.callers[d].name = n /\ loader.callers[d].pc = "resolved"}}

\* C16: for each plugin name, the script fetches started for it number at
\* most one more than the loads of it that have failed (a fetch starts only
\* for the first load and after a failed load), and all callers have
\* received one and the same plugin object.
C16_OneFetchPerName ==
    \A n \in PluginNames :
        /\ loader.fetches[n] <= 1 + loader.failed[n]
        /\ Cardinality(received(n)) <= 1

\* without options.fallback and unloadPlugin the caching holds
NoFallbackOneFetch ==
    (/\ \A i \in 1..Len(loader.loads) : ~loader.loads[i].fallback
     /\ loader.unloads = 0)
        => C16_OneFetchPerName

\* a load that succeeded through the fallback URL is fetched again by the
\* next call, and the callers hold two plugin objects
RefetchedAfterSuccess ==
    /\ loader.failed["anchor"] = 0
    /\ loader.unloads = 0
    /\ Len(loader.loads) >= 2
    /\ loader.loads[1].name = "anchor"
    /\ loader.loads[1].pc = "done"
    /\ loader.loads[2].name = "anchor"
    /\ Cardinality(received("anchor")) = 2

----------------------------------------------------------------------------
(* C21: loader termination *)

\* the loads that load i waits for, directly or through other loads
RECURSIVE WaitsFor(_, _)
WaitsFor(i, fuel) ==
    IF fuel = 0 \/ loader.loads[i].pc # "deps" THEN {}
    ELSE loader.loads[i].awaits
            \cup UNION {WaitsFor(j, fuel - 1) : j \in loader.loads[i].awaits}

\* C21: whatever registry updateRegistry has installed, no call of
\* loadPlugin re-enters doLoadPlugin for a name whose doLoadPlugin is still
\* on the call stack (recursion without bound), and no load waits for its
\* own promise.
C21_LoaderTerminates ==
    /\ ~loader.overflow
    /\ \A i \in 1..Len(loader.loads) : i \notin WaitsFor(i, Len(loader.loads))

\* no load ever waits for its own promise: a name is entered in
\* loadingPromises only after the synchronous part of its load has returned
NoWaitForOwnPromise ==
    \A i \in 1..Len(loader.loads) : i \notin WaitsFor(i, Len(loader.loads))

\* with the registry of initializeRegistry the recursion is bounded
InitialRegistryTerminates ==
    loader.registry = initializeRegistry => ~loader.overflow

\* a plugin that lists itself as a dependency: loadPlugin recursed until
\* the call stack was exhausted
SelfDependencyOverflows ==
    /\ loader.overflow
    /\ loader.registry["anchor"].versions[1].dependencies = <<"anchor">>
    /\ Len(loader.callers) = 1
    /\ loader.callers[1].pc = "rejected"

\* the cycle anchor -> tooltip -> anchor does the same
CycleOverflows ==
    /\ loader.overflow
    /\ loader.registry["anchor"].versions[1].dependencies = <<"tooltip">>

----------------------------------------------------------------------------
(* C22: the plugin a load resolves to *)

\* C22: a load that has succeeded resolved to a plugin object, not null,
\* and to the object that the script of the requested plugin defined as
\* window.Datastar<Name>Plugin, never to the object of another plugin.
C22_ResolvesOwnPlugin ==
    \A i \in 1..Len(loader.loads) :
        loader.loads[i].pc = "done"
            => /\ loader.loads[i].plugin # 0
               /\ loader.loads[loader.loads[i].plugin].name = loader.loads[i].name

\* the lookup of the IIFE build finds the object the load's own script
\* defined
IifeBuildResolvesOwn ==
    \A i \in 1..Len(loader.loads) :
        loader.loads[i].pc = "done" => loader.loads[i].pluginIife = i

\* the name guessed from a registry URL keeps "-browser", so the guessed
\* global is never defined
GuessedGlobalFromRegistryUrl ==
    /\ extractPluginNameFromUrl(RegistryUrl("tooltip")) = Chars("tooltip") \o Chars("-browser")
    /\ extractPluginNameFromUrlIife(RegistryUrl("tooltip")) = Chars("tooltip")
    /\ extractPluginNameFromUrl(FallbackUrl("tooltip")) = Chars("tooltip")

\* loadPlugin('tooltip') resolved to the object of the anchor plugin
TooltipResolvesToAnchor ==
    \E i \in 1..Len(loader.loads) :
        /\ loader.loads[i].name = "tooltip"
        /\ loader.loads[i].pc = "done"
        /\ loader.loadedPlugins["tooltip"].plugin = loader.loadedPlugins["anchor"].plugin
        /\ loader.loadedPlugins["tooltip"].loaded
        /\ loader.window[Chars("DatastarTooltipPlugin")] = i

----------------------------------------------------------------------------
(* C23: unloadPlugin *)

LoadsInFlight(n) ==
    {i \in 1..Len(loader.loads) : loader.loads[i].name = n /\ InFlight(loader, i)}

\* C23: from the return of unloadPlugin(name) until the next call of
\* loadPlugin(name), isPluginLoaded(name) is false, also when a load of the
\* name was in flight at the unload; and at most one load of a name is in
\* flight at any time.
C23_UnloadedStaysUnloaded ==
    \A n \in PluginNames :
        /\ loader.sinceUnload[n] => ~isPluginLoaded(loader, n)
        /\ Cardinality(LoadsInFlight(n)) <= 1

\* without unloadPlugin (and without a registry that makes loadPlugin
\* recurse) at most one load of a name is in flight
NoUnloadOneInFlight ==
    (loader.unloads = 0 /\ ~loader.overflow)
        => \A n \in PluginNames : Cardinality(LoadsInFlight(n)) <= 1

\* the load that was in flight at the unload stored the plugin afterwards
LoadedAfterUnload ==
    /\ loader.sinceUnload["anchor"]
    /\ isPluginLoaded(loader, "anchor")
    /\ Len(loader.callers) = 1

\* after an unload a second load of the name started beside the first
TwoLoadsInFlight ==
    /\ Cardinality(LoadsInFlight("anchor")) = 2
    /\ loader.registry = initializeRegistry

----------------------------------------------------------------------------
(* C24: what a resolved loadPlugin promise leaves in loadedPlugins *)

\* the callers whose promise resolves in this step
Resolving ==
    {c \in 1..Len(loader'.callers) :
        /\ loader'.callers[c].pc = "resolved"
        /\ (c > Len(loader.callers) \/ loader.callers[c].pc = "pending")}

\* C24: when a loadPlugin(name) promise resolves, isPluginLoaded(name) is
\* true and the entry of the name in loadedPlugins has the version the
\* caller requested (options.version, or the registry's latest), also when
\* the plugin came from options.fallback and when another version of the
\* name had been loaded before.
C24_ResolvedIsRecorded ==
    [][\A c \in Resolving :
          /\ isPluginLoaded(loader', loader'.callers[c].name)
          /\ loader'.loadedPlugins[loader'.callers[c].name].version
                 = loader'.callers[c].version]_vars

\* a promise that resolves with the fetch of the registry URL leaves the
\* name loaded with the version of that load
PrimaryFetchIsRecorded ==
    [][\A c \in Resolving :
          (c <= Len(loader.callers) /\ loader.loads[loader.callers[c].h].pc = "fetch")
             => /\ isPluginLoaded(loader', loader.callers[c].name)
                /\ loader'.loadedPlugins[loader.callers[c].name].version
                       = loader.loads[loader.callers[c].h].version]_vars

\* the promise resolved with the plugin of the fallback URL and the name is
\* not loaded
ResolvedButNotLoaded ==
    /\ loader.unloads = 0
    /\ Len(loader.callers) = 1
    /\ loader.callers[1].pc = "resolved"
    /\ ~isPluginLoaded(loader, loader.callers[1].name)

\* loadPlugin('anchor', {version: '2.0.0'}) resolved at once with the
\* version 1.0.0 that was loaded before
OtherVersionReturned ==
    /\ Len(loader.callers) = 2
    /\ loader.callers[2].pc = "resolved"
    /\ loader.callers[2].h = 0
    /\ loader.callers[2].version = 2
    /\ loader.registry["anchor"].versions[2].present
    /\ loader.loadedPlugins["anchor"].version = 1

----------------------------------------------------------------------------
(* C25: a failed load *)

LoadsOf(n) == {i \in 1..Len(loader.loads) : loader.loads[i].name = n}

\* the failed loads whose loadPlugin call returns in this step
ReturningFailed ==
    {i \in 1..Len(loader.loads) :
        /\ loader.loads[i].pc = "failed"
        /\ ~loader.loads[i].cleared
        /\ loader'.loads[i].cleared}

\* the loads that fail in this step
Failing ==
    {i \in 1..Len(loader'.loads) :
        /\ loader'.loads[i].pc = "failed"
        /\ (i > Len(loader.loads) \/ loader.loads[i].pc # "failed")}

RejectedBeforeFetch ==
    /\ Len(loader.loads) = 2
    /\ loader.loads[1].name = "modal" /\ loader.loads[1].pc = "failed"
    /\ loader.loads[2].name = "anchor" /\ loader.loads[2].version = 2
    /\ loader.loads[2].pc = "failed" /\ loader.loads[2].cleared
    /\ loader.fetches["anchor"] = 0
    /\ loader.loadingPromises["anchor"] = 0

----------------------------------------------------------------------------
(* C26: dependencies load first *)

Range(s) == {s[k] : k \in 1..Len(s)}

\* the loads whose script fetch starts in this step
StartingFetch ==
    {i \in 1..Len(loader'.loads) :
        /\ loader'.loads[i].pc = "fetch"
        /\ (i > Len(loader.loads) \/ loader.loads[i].pc = "deps")}

\* the loads that register their plugin with Datastar in this step
Registering ==
    {i \in 1..Len(loader.loads) :
        /\ Len(loader'.datastar) > Len(loader.datastar)
        /\ loader.loads[i].pc = "fetch"
        /\ loader'.loads[i].pc = "done"}

\* the script fetch of a load starts only when the loads it waits for have
\* succeeded; a load with a failed dependency never fetches and is rejected
FetchAfterDependencies ==
    /\ \A i \in StartingFetch :
          \A j \in loader'.loads[i].awaits : loader.loads[j].pc = "done"
    /\ \A i \in 1..Len(loader.loads) :
          (/\ loader.loads[i].pc = "deps"
           /\ \E j \in loader.loads[i].awaits : loader.loads[j].pc = "failed")
             => loader'.loads[i].pc \in {"deps", "failed"}

\* C26: a plugin's script is not fetched before the loads of all its
\* declared dependencies have succeeded, a plugin is registered with
\* Datastar only after each of its dependencies has been, and a load with a
\* failed dependency never fetches and is rejected.
C26_DependenciesFirst ==
    [][/\ FetchAfterDependencies
       /\ \A i \in Registering :
             Range(loader.loads[i].dependencies) \subseteq Range(loader.datastar)]_vars

\* the order of the fetches holds
FetchOrderHolds == [][FetchAfterDependencies]_vars

\* and so does the order of the registrations when no load used
\* options.fallback
NoFallbackRegisteredInOrder ==
    [][(\A j \in 1..Len(loader.loads) : ~loader.loads[j].fallback)
          => \A i \in Registering :
                Range(loader.loads[i].dependencies) \subseteq Range(loader.datastar)]_vars

\* tooltip is registered with Datastar, its dependency anchor, obtained
\* from the fallback URL, is not
DependentRegisteredAlone ==
    /\ loader.datastar = <<"tooltip">>
    /\ loader.registry = initializeRegistry
    /\ \E i \in 1..Len(loader.loads) :
          /\ loader.loads[i].name = "anchor"
          /\ loader.loads[i].pc = "done"
          /\ loader.loads[i].fallback

\* a plugin with two dependencies fetched after both had loaded
TwoDependenciesFirst ==
    \E i \in 1..Len(loader.loads) :
        /\ loader.loads[i].name = "modal"
        /\ loader.loads[i].pc = "fetch"
        /\ Cardinality(loader.loads[i].awaits) = 2

----------------------------------------------------------------------------
(* Persist plugin: onLoad, then signal changes, passing time and the       *)
(* debounce timer; every storage call may throw.                           *)

MaxValue == 2
MaxChanges == 3
ThrottleTicks == 2

StoredValues ==
    {Stored("null", Absent), Stored("garbage", Absent), Stored("scalar", Absent),
     Stored("object", Absent), Stored("object", 1)}

Fails == {"none", "getItem", "setItem"}

InitPersist ==
    /\ persist \in {NewPersist(c, st, t) :
                       c \in {Absent, 0}, st \in StoredValues, t \in {0, ThrottleTicks}}
    /\ IdleDom
    /\ IdleLoader
    /\ IdleLegacy
    /\ IdleGeom
    /\ IdleLife
    /\ IdleParse

\* the effect has run: the bookkeeping of bursts (runs less than throttleMs
\* apart) and of the runs not yet followed by a write
Collected(P, Q) ==
    [Q EXCEPT !.burst = IF P.burst > 0 /\ P.age < P.throttleMs THEN P.burst + 1 ELSE 1,
              !.age = 0,
              !.pending = IF Q.writes > P.writes THEN 0 ELSE P.pending + 1]

PersistOnLoad ==
    /\ persist.phase = "new"
    /\ \E probe \in BOOLEAN, failLoad \in {"none", "getItem"}, failSave \in Fails :
          LET Q == persistOnLoad(persist, probe, failLoad, failSave)
              R == IF probe THEN Q ELSE Collected(persist, Q)
          IN  persist' = [R EXCEPT !.op = "onLoad",
                                   !.loadFailed = ~probe /\ (failLoad = "getItem"
                                                    \/ persist.stored.kind = "garbage")]
    /\ UNCHANGED <<gvars, lvars, pvars, dom, loader, legacy>>

SignalChange ==
    /\ persist.phase # "new"
    /\ persist.changes < MaxChanges
    /\ \E v \in 0..MaxValue, fail \in Fails :
          /\ v # persist.count
          /\ LET P == [persist EXCEPT !.count = v, !.changes = @ + 1, !.op = "change"]
             IN  persist' = IF persist.phase = "attached"
                            THEN Collected(P, effect(P, fail))
                            ELSE P
    /\ UNCHANGED <<gvars, lvars, pvars, dom, loader, legacy>>

\* a tick passes; a timer that is due fires first
TimePasses ==
    /\ persist.phase # "new"
    /\ persist.timer # 0
    /\ persist.age < ThrottleTicks \/ persist.timer > 0
    /\ persist' = [persist EXCEPT
                      !.timer = IF @ > 0 THEN @ - 1 ELSE @,
                      !.age = IF @ < ThrottleTicks THEN @ + 1 ELSE @,
                      !.op = "tick"]
    /\ UNCHANGED <<gvars, lvars, pvars, dom, loader, legacy>>

DebounceFires ==
    /\ persist.timer = 0
    /\ \E fail \in Fails :
          persist' = [persistData([persist EXCEPT !.timer = NoTimer], fail) EXCEPT !.op = "fire"]
    /\ UNCHANGED <<gvars, lvars, pvars, dom, loader, legacy>>

NextPersist ==
    \/ PersistOnLoad
    \/ SignalChange
    \/ TimePasses
    \/ DebounceFires

SpecPersist == InitPersist /\ [][NextPersist]_vars

----------------------------------------------------------------------------
(* C17: debounced persistence *)

\* C17: with a throttle delay d > 0 a storage write happens only when the
\* debounce timer fires, d or more after the latest change, with at least
\* one change since the previous write, and it writes the signal's value as
\* of the latest change: a burst of changes less than d apart ends in at
\* most one write.
C17_DebouncedWrite ==
    [][(persist.throttleMs > 0 /\ persist'.writes # persist.writes) =>
          /\ persist'.op = "fire"
          /\ persist'.writes = persist.writes + 1
          /\ persist.age >= persist.throttleMs
          /\ persist.pending > 0
          /\ persist'.written = persist.count]_vars

\* C17 witness: three changes less than d apart after onLoad, then the one
\* write of the burst
C17_Witness ==
    /\ persist.throttleMs > 0
    /\ persist.op = "fire"
    /\ persist.burst = 4
    /\ persist.writes = 1
    /\ persist.written = persist.count

----------------------------------------------------------------------------
(* C18: storage failures *)

\* C18: no exception reaches the host and startBatch/endBatch are balanced;
\* after a throwing storage probe the plugin does nothing; a load that
\* failed has patched no signal; and every firing of the timer (or change,
\* without throttle) with collected data attempts a save whatever failed
\* before.
C18_StorageFailuresSwallowed ==
    /\ [](/\ ~persist.threw
          /\ persist.batch = 0
          /\ persist.phase = "inert" =>
                (/\ persist.attempts = 0 /\ persist.writes = 0
                 /\ persist.timer = NoTimer /\ ~persist.patched
                 /\ persist.cachedSignalData = Absent)
          /\ persist.loadFailed => ~persist.patched)
    /\ [][(persist'.op = "fire" /\ persist.cachedSignalData # Absent)
            => persist'.attempts = persist.attempts + 1]_vars

\* C18 witness: after a failed load and a failed save, a later save went
\* through
C18_Witness ==
    /\ persist.loadFailed
    /\ persist.attempts >= 2
    /\ persist.writes = 1
    /\ persist.op = "fire"

----------------------------------------------------------------------------
(* The legacy AnchorPlugin in a page: calls of apply and cleanup on two     *)
(* floating elements, destroy() on any AutoUpdate object made so far, and  *)
(* the browser delivering scroll and resize events and observer callbacks. *)

MaxLegacyCalls == 4

\* data-anchor and data-anchor-top-start-offset-20
LegacyKeys == {<<"anchor">>, <<"anchor", "top", "start", "offset", "20">>}

LegacyValues ==
    {<<"'", "#", "t", "'">>, <<"'", "#", "g", "'">>, <<"$", "t">>, <<"'", "'">>,
     Chars("button"), <<"'", ">", "'">>}

InitLegacy ==
    /\ legacy \in {NewLegacy(r, m) : r \in BOOLEAN, m \in BOOLEAN}
    /\ IdleDom
    /\ IdleLoader
    /\ IdlePersist
    /\ IdleGeom
    /\ IdleLife
    /\ IdleParse

Called(L, op, element, id) ==
    [L EXCEPT !.calls = @ + 1, !.last = [op |-> op, element |-> element, id |-> id]]

LegacyApply ==
    /\ legacy.calls < MaxLegacyCalls
    /\ \E element \in Floating, key \in LegacyKeys, value \in LegacyValues :
          legacy' = Called(apply(legacy, element, key, value), "apply", element, Absent)
    /\ UNCHANGED <<gvars, lvars, pvars, dom, loader, persist>>

LegacyCleanup ==
    /\ legacy.calls < MaxLegacyCalls
    /\ \E element \in Floating :
          legacy' = Called(pluginCleanup(legacy, element), "cleanup", element, Absent)
    /\ UNCHANGED <<gvars, lvars, pvars, dom, loader, persist>>

\* autoUpdate.destroy() on an object the page still holds
LegacyDestroy ==
    /\ legacy.calls < MaxLegacyCalls
    /\ \E id \in 1..Len(legacy.instances) :
          legacy' = Called(destroy(legacy, id), "destroy", legacy.instances[id].floating, id)
    /\ UNCHANGED <<gvars, lvars, pvars, dom, loader, persist>>

\* the page scrolls: the window's scroll listeners run
LegacyScroll ==
    /\ LET scrolled == [legacy EXCEPT !.scrollY = IF @ = 0 THEN 60 ELSE 0]
           ids == {l.id : l \in {x \in legacy.windowListeners : x.type = "scroll"}}
       IN  legacy' = [runCallbacks(scrolled, ids) EXCEPT
                         !.last = [op |-> "scroll", element |-> "", id |-> Absent]]
    /\ UNCHANGED <<gvars, lvars, pvars, dom, loader, persist>>

\* the window is resized: its resize listeners run
LegacyResize ==
    /\ LET resized == [legacy EXCEPT !.innerHeight = IF @ = 90 THEN 60 ELSE 90]
           ids == {l.id : l \in {x \in legacy.windowListeners : x.type = "resize"}}
       IN  legacy' = [runCallbacks(resized, ids) EXCEPT
                         !.last = [op |-> "resize", element |-> "", id |-> Absent]]
    /\ UNCHANGED <<gvars, lvars, pvars, dom, loader, persist>>

\* a ResizeObserver or a MutationObserver delivers its records
ObserverCallback ==
    /\ \E ids \in {{o.id : o \in legacy.resizeObservers}, legacy.mutationObservers} :
          /\ ids # {}
          /\ legacy' = [runCallbacks(legacy, ids) EXCEPT
                           !.last = [op |-> "observer", element |-> "", id |-> Absent]]
    /\ UNCHANGED <<gvars, lvars, pvars, dom, loader, persist>>

NextLegacy ==
    \/ LegacyApply
    \/ LegacyCleanup
    \/ LegacyDestroy
    \/ LegacyScroll
    \/ LegacyResize
    \/ ObserverCallback

SpecLegacy == InitLegacy /\ [][NextLegacy]_vars

----------------------------------------------------------------------------
(* C29: one AutoUpdate per element *)

\* the AutoUpdate objects of an element that still have something registered
Registered(L, id) ==
    \/ \E l \in L.windowListeners : l.id = id
    \/ \E o \in L.resizeObservers : o.id = id
    \/ id \in L.mutationObservers

ActiveFor(L, element) ==
    {id \in 1..Len(L.instances) : L.instances[id].floating = element /\ Registered(L, id)}

\* one set: a scroll and a resize listener, and one observer of each kind
\* the browser has
OneSet(L, id) ==
    /\ Cardinality({l \in L.windowListeners : l.id = id /\ l.type = "scroll"}) = 1
    /\ Cardinality({l \in L.windowListeners : l.id = id /\ l.type = "resize"}) = 1
    /\ Cardinality({o \in L.resizeObservers : o.id = id})
         = (IF L.hasResizeObserver THEN 1 ELSE 0)
    /\ (id \in L.mutationObservers) = L.hasMutationObserver

\* what a call can change: everything but the call counter and the marker
Plugin(L) == [L EXCEPT !.calls = 0, !.last = [op |-> "none", element |-> "", id |-> Absent]]

IsCall(op) == legacy'.calls = legacy.calls + 1 /\ legacy'.last.op = op

AtMostOneAutoUpdate ==
    \A element \in Floating :
        /\ Cardinality(ActiveFor(legacy, element)) <= 1
        /\ \A id \in ActiveFor(legacy, element) :
              OneSet(legacy, id) /\ legacy.autoUpdateInstances[element] = id

CleanupRemovesAll ==
    IsCall("cleanup") =>
        /\ ActiveFor(legacy', legacy'.last.element) = {}
        /\ legacy'.autoUpdateInstances[legacy'.last.element] = Absent

SecondCleanupIsNoOp ==
    (IsCall("cleanup") /\ legacy.autoUpdateInstances[legacy'.last.element] = Absent)
        => Plugin(legacy') = Plugin(legacy)

SecondDestroyIsNoOp ==
    (IsCall("destroy") /\ ~legacy.instances[legacy'.last.id].cleanup)
        => Plugin(legacy') = Plugin(legacy)

\* C29: whatever apply, cleanup and destroy calls were made, each element has
\* at most one AutoUpdate with anything registered, it has exactly one set of
\* listeners and observers and is the one autoUpdateInstances holds; a
\* cleanup(element) leaves nothing of the element registered and no entry in
\* autoUpdateInstances; cleanup of an element without an entry and destroy()
\* of an object already destroyed change nothing
C29_OneAutoUpdatePerElement ==
    /\ []AtMostOneAutoUpdate
    /\ [][CleanupRemovesAll /\ SecondCleanupIsNoOp /\ SecondDestroyIsNoOp]_vars

\* apply ran twice on an element (the second replaced the first AutoUpdate)
\* and once on the other; cleanup of the first has just destroyed its second
\* AutoUpdate, and the other element still has its own
C29_Witness ==
    /\ Len(legacy.instances) = 3
    /\ ~legacy.instances[1].cleanup
    /\ ~legacy.instances[2].cleanup
    /\ legacy.instances[1].floating = legacy.instances[2].floating
    /\ legacy.instances[3].floating # legacy.instances[1].floating
    /\ ActiveFor(legacy, legacy.instances[3].floating) = {3}
    /\ legacy.last.op = "cleanup"
    /\ legacy.last.element = legacy.instances[1].floating

\* once cleaned up, an element is no longer repositioned when the page scrolls
StaleAfterCleanup ==
    /\ legacy.last.op = "scroll"
    /\ \E element \in Floating :
          /\ legacy.autoUpdateInstances[element] = Absent
          /\ legacy.style[element].position = "absolute"
          /\ \E other \in Floating :
                /\ legacy.autoUpdateInstances[other] # Absent
                /\ legacy.instances[legacy.autoUpdateInstances[other]].options
                     = [placement |-> "bottom", offsetValue |-> 10]
                /\ legacy.style[other].top # legacy.style[element].top

====
